---- MODULE Spec2Model ----
(***************************************************************************)
(* Model of the template-resolution engine of excel-template-engine        *)
(* (src/src/index.ts): path resolution, placeholder detection, formula     *)
(* rendering, table expansion and the per-worksheet driver processWorkbook.*)
(*                                                                         *)
(* Strings are sequences of one-character strings, so that the regular     *)
(* expressions, the splitting of paths and the formatting of formulas are  *)
(* computed character by character, as the code computes them.             *)
(*                                                                         *)
(* JavaScript values are tagged records:                                   *)
(*   undefined, null, number (a reduced fraction num/den, NaN as a tag of  *)
(*   its own), string, boolean, array, object (an ordered list of          *)
(*   key/value pairs), formula object ({formula: string}).                 *)
(***************************************************************************)
EXTENDS Integers, Sequences, FiniteSets, TLC

VARIABLES
    \* ---- one run of processWorkbook over one worksheet ----
    pc,               \* position inside processWorkbook
    data,             \* the root data object
    loaded,           \* the worksheet as it was loaded (history)
    sheet,            \* the worksheet: a sequence of rows, row number = index
    tables,           \* scanTables' result, in processing order
    ti,               \* index in tables of the next anchor to expand
    tableInfoMap,     \* Map<string, TableRenderInfo>, as a list of entries
    lastTableInfo,    \* the most recently produced TableRenderInfo, or NoInfo
    infos,            \* the tableInfo renderTable returned per anchor (history)
    hideEntries,      \* {rows, insertedAt, rowsInserted} per processed anchor
    originallyHiddenRows,  \* rows hidden before any mutation
    \* ---- one call of a pure function ----
    fn,               \* the function called ("none" before the call)
    args,             \* its arguments
    ret               \* its result

wbVars == <<pc, data, loaded, sheet, tables, ti, tableInfoMap, lastTableInfo, infos,
            hideEntries, originallyHiddenRows>>
callVars == <<fn, args, ret>>
vars == <<pc, data, loaded, sheet, tables, ti, tableInfoMap, lastTableInfo, infos,
          hideEntries, originallyHiddenRows, fn, args, ret>>

(***************************************************************************)
(* Bounds of the model.                                                    *)
(***************************************************************************)
MaxScopes == 2      \* longest scope stack handed to resolve
MaxTables == 2      \* most table anchors on a worksheet
MaxSegments == 4    \* most pieces of text and placeholders in one cell text
MaxRuns == 3        \* most styled runs of one rich text
MaxRichSegments == 3 \* most pieces of text and placeholders in one rich text
MaxJoinLen == 3     \* longest array handed to renderJoin
MaxLen == 2         \* longest data array

(***************************************************************************)
(* Characters and strings.                                                 *)
(***************************************************************************)
Lower == <<"a","b","c","d","e","f","g","h","i","j","k","l","m",
           "n","o","p","q","r","s","t","u","v","w","x","y","z">>
Upper == <<"A","B","C","D","E","F","G","H","I","J","K","L","M",
           "N","O","P","Q","R","S","T","U","V","W","X","Y","Z">>
Digits == <<"0","1","2","3","4","5","6","7","8","9">>

Range(s) == {s[i] : i \in DOMAIN s}
IndexIn(s, c) == CHOOSE i \in DOMAIN s : s[i] = c

IsLower(c) == c \in Range(Lower)
IsUpper(c) == c \in Range(Upper)
IsLetter(c) == IsLower(c) \/ IsUpper(c)
IsDigit(c) == c \in Range(Digits)
\* \w of a JavaScript regular expression
IsWordChar(c) == IsLetter(c) \/ IsDigit(c) \/ c = "_"
\* \s, and the characters String.prototype.trim removes (space and tab here)
IsSpace(c) == c \in {" ", "\t"}

\* String.prototype.toUpperCase
toUpperCase(s) ==
    [i \in DOMAIN s |-> IF IsLower(s[i]) THEN Upper[IndexIn(Lower, s[i])] ELSE s[i]]

\* String.prototype.trim / _.trim
RECURSIVE TrimLeft(_)
TrimLeft(s) == IF s # <<>> /\ IsSpace(Head(s)) THEN TrimLeft(Tail(s)) ELSE s
RECURSIVE TrimRight(_)
TrimRight(s) ==
    IF s # <<>> /\ IsSpace(s[Len(s)]) THEN TrimRight(SubSeq(s, 1, Len(s) - 1)) ELSE s
trim(s) == TrimRight(TrimLeft(s))

StartsWith(s, p) == Len(s) >= Len(p) /\ SubSeq(s, 1, Len(p)) = p
EndsWith(s, p) == Len(s) >= Len(p) /\ SubSeq(s, Len(s) - Len(p) + 1, Len(s)) = p
Drop(s, n) == SubSeq(s, n + 1, Len(s))

\* String.prototype.lastIndexOf for one character, 0-based, -1 when absent
lastIndexOf(s, c) ==
    IF \E i \in DOMAIN s : s[i] = c
    THEN (CHOOSE i \in DOMAIN s : s[i] = c /\ \A j \in DOMAIN s : s[j] = c => j <= i) - 1
    ELSE -1

\* String.prototype.split on one character
RECURSIVE split(_, _)
split(s, c) ==
    IF \E i \in DOMAIN s : s[i] = c
    THEN LET i == CHOOSE k \in DOMAIN s : s[k] = c /\ \A j \in 1..(k - 1) : s[j] # c
         IN <<SubSeq(s, 1, i - 1)>> \o split(Drop(s, i), c)
    ELSE <<s>>

\* String(n) for an integer n
RECURSIVE NatToString(_)
NatToString(n) ==
    IF n < 10 THEN <<Digits[n + 1]>> ELSE NatToString(n \div 10) \o <<Digits[(n % 10) + 1]>>
IntToString(n) == IF n < 0 THEN <<"-">> \o NatToString(-n) ELSE NatToString(n)

(***************************************************************************)
(* JavaScript values.                                                      *)
(***************************************************************************)
Undefined == [t |-> "undefined"]
Null == [t |-> "null"]
NaN == [t |-> "NaN"]
Bool(b) == [t |-> "boolean", b |-> b]
Str(s) == [t |-> "string", s |-> s]
Arr(items) == [t |-> "array", items |-> items]
Obj(fields) == [t |-> "object", fields |-> fields]
KV(k, v) == [k |-> k, v |-> v]

RECURSIVE Gcd(_, _)
Gcd(a, b) == IF b = 0 THEN a ELSE Gcd(b, a % b)
Abs(n) == IF n < 0 THEN -n ELSE n
\* the number n/d, d > 0, as a reduced fraction
Frac(n, d) ==
    LET g == Gcd(Abs(n), d) IN [t |-> "number", num |-> n \div g, den |-> d \div g]
Num(n) == [t |-> "number", num |-> n, den |-> 1]

\* a BigInt such as 10n
BigInt(n) == [t |-> "bigint", n |-> n]
\* the completion of a call that throws: the exception, not a value
Thrown(name) == [t |-> "throw", name |-> name]
isThrown(v) == v.t = "throw"

isUndefined(v) == v.t = "undefined"
isNil(v) == v.t \in {"undefined", "null"}
isString(v) == v.t = "string"
\* _.isNumber is true of NaN too
isNumber(v) == v.t \in {"number", "NaN"}
isNaN(v) == v.t = "NaN"
isArray(v) == v.t = "array"
isBoolean(v) == v.t = "boolean"

EmptyString == Str(<<>>)

\* property access value[key] for a key that is a string
GetProp(v, key) ==
    CASE v.t = "object" ->
            IF \E i \in DOMAIN v.fields : v.fields[i].k = key
            THEN v.fields[CHOOSE i \in DOMAIN v.fields : v.fields[i].k = key].v
            ELSE Undefined
      [] v.t = "array" ->
            IF key = <<"l","e","n","g","t","h">> THEN Num(Len(v.items))
            ELSE IF \E i \in DOMAIN v.items : NatToString(i - 1) = key
                 THEN v.items[CHOOSE i \in DOMAIN v.items : NatToString(i - 1) = key]
                 ELSE Undefined
      [] v.t = "string" ->
            IF key = <<"l","e","n","g","t","h">> THEN Num(Len(v.s)) ELSE Undefined
      [] OTHER -> Undefined

\* lodash baseGet: walk the keys while the object is neither null nor undefined
RECURSIVE baseGet(_, _)
baseGet(object, keys) ==
    IF keys = <<>> THEN object
    ELSE IF isNil(object) THEN Undefined
    ELSE baseGet(GetProp(object, Head(keys)), Tail(keys))

\* _.get(object, path) without a default value; paths are dotted words
get(object, path) ==
    IF isNil(object) THEN Undefined ELSE baseGet(object, split(path, "."))

(***************************************************************************)
(* 1. Path resolution.                                                     *)
(***************************************************************************)
\* the reducer of resolve: keep a result that is not undefined
RECURSIVE ResolveReduce(_, _, _)
ResolveReduce(result, scopes, path) ==
    IF scopes = <<>> THEN result
    ELSE ResolveReduce(IF ~isUndefined(result) THEN result ELSE get(Head(scopes), path),
                       Tail(scopes), path)

\* a reducer that tests truthiness instead of definedness
RECURSIVE ResolveReduceTruthy(_, _, _)
ResolveReduceTruthy(result, scopes, path) ==
    IF scopes = <<>> THEN result
    ELSE ResolveReduceTruthy(
             IF ~(isNil(result) \/ result = Num(0) \/ result = Bool(FALSE)
                    \/ result = EmptyString \/ isNaN(result))
             THEN result ELSE get(Head(scopes), path),
             Tail(scopes), path)

resolveTruthy(path, scopes) ==
    LET r == ResolveReduceTruthy(Undefined, scopes, path)
    IN IF isNil(r) THEN EmptyString ELSE r

\* the reduce of resolve without the trailing ?? ""
resolveNoDefault(path, scopes) == ResolveReduce(Undefined, scopes, path)

\* resolve(path, scopes): _.reduce(...) ?? ""
resolve(path, scopes) ==
    LET r == ResolveReduce(Undefined, scopes, path)
    IN IF isNil(r) THEN EmptyString ELSE r

(***************************************************************************)
(* 2. Placeholder detection.  Each regular expression of PLACEHOLDER_REGEX *)
(* is an operator that returns its capture groups, or NoMatch.             *)
(***************************************************************************)
NoMatch == <<>>
sOpen == <<"{","{">>
sClose == <<"}","}">>
sTableOpen == <<"{","{","#","t","a","b","l","e">>
sFormulaOpen == <<"{","{","#","f","o","r","m","u","l","a">>
sHashFormula == <<"#","f","o","r","m","u","l","a">>
sJoinOpen == <<"j","o","i","n","(">>
Quotes == {"\"", "'"}

\* the length of the run of white space that starts s
RECURSIVE SpaceRun(_)
SpaceRun(s) == IF s # <<>> /\ IsSpace(Head(s)) THEN 1 + SpaceRun(Tail(s)) ELSE 0
\* the length of the run of characters other than white space that starts s
RECURSIVE TokenRun(_)
TokenRun(s) == IF s # <<>> /\ ~IsSpace(Head(s)) THEN 1 + TokenRun(Tail(s)) ELSE 0

\* TABLE: /^\{\{#table\s+(.+?)\}\}$/ -- <<path>>.  \s+ is greedy and gives
\* back one character when nothing else is left for the group.
MatchTable(s) ==
    IF ~(StartsWith(s, sTableOpen) /\ EndsWith(s, sClose)
            /\ Len(s) >= Len(sTableOpen) + 2 + Len(sClose))
    THEN NoMatch
    ELSE LET inner == SubSeq(s, Len(sTableOpen) + 1, Len(s) - Len(sClose))
             run == SpaceRun(inner)
             ws == IF run = Len(inner) THEN run - 1 ELSE run
         IN IF run = 0 THEN NoMatch ELSE <<Drop(inner, ws)>>

\* [A-Za-z_][\w.]* over the whole of s
IsFormulaTarget(s) ==
    /\ s # <<>>
    /\ (IsLetter(s[1]) \/ s[1] = "_")
    /\ \A i \in DOMAIN s : IsWordChar(s[i]) \/ s[i] = "."

\* \s+(SUM|AVERAGE|COUNT|MIN|MAX)\s+([A-Za-z_][\w.]*) over the whole of s,
\* case-insensitive -- <<type, target>>
MatchFormulaBody(s) ==
    LET ws1 == SpaceRun(s)
        afterWs1 == Drop(s, ws1)
        tlen == TokenRun(afterWs1)
        type == SubSeq(afterWs1, 1, tlen)
        afterType == Drop(afterWs1, tlen)
        ws2 == SpaceRun(afterType)
        target == Drop(afterType, ws2)
    IN IF /\ ws1 >= 1
          /\ toUpperCase(type) \in {<<"S","U","M">>, <<"A","V","E","R","A","G","E">>,
                                    <<"C","O","U","N","T">>, <<"M","I","N">>,
                                    <<"M","A","X">>}
          /\ ws2 >= 1
          /\ IsFormulaTarget(target)
       THEN <<type, target>>
       ELSE NoMatch

\* FORMULA: /^\{\{#formula\s+(SUM|AVERAGE|COUNT|MIN|MAX)\s+([A-Za-z_][\w.]*)\}\}$/i
MatchFormula(s) ==
    IF ~(Len(s) >= Len(sFormulaOpen) + Len(sClose)
            /\ SubSeq(s, 1, 2) = sOpen
            /\ toUpperCase(SubSeq(s, 1, Len(sFormulaOpen))) = toUpperCase(sFormulaOpen)
            /\ EndsWith(s, sClose))
    THEN NoMatch
    ELSE MatchFormulaBody(SubSeq(s, Len(sFormulaOpen) + 1, Len(s) - Len(sClose)))

\* whether \s*\|\s*join\(["'] matches s from position p on; the position after
\* the quote when it does, 0 when it does not
JoinHeadEnd(s, p) ==
    LET a == p + SpaceRun(Drop(s, p - 1))
        b == a + 1 + SpaceRun(Drop(s, a))
        q == b + Len(sJoinOpen)
    IN IF /\ a <= Len(s) /\ s[a] = "|"
          /\ q <= Len(s)
          /\ SubSeq(s, b, q - 1) = sJoinOpen
          /\ s[q] \in Quotes
       THEN q + 1
       ELSE 0

\* (.+?)\s*\|\s*join\(["'](.+?)["']\) over the whole of s -- <<path, separator>>.
\* The first group is lazy: it ends at the first position the rest matches
\* from; the second group runs to the last quote.
MatchJoinBody(s) ==
    LET n == Len(s)
        ok(p) == /\ JoinHeadEnd(s, p) # 0
                 /\ JoinHeadEnd(s, p) <= n - 2
                 /\ s[n - 1] \in Quotes
                 /\ s[n] = ")"
        starts == {p \in 2..n : ok(p)}
    IN IF starts = {} THEN NoMatch
       ELSE LET p == CHOOSE x \in starts : \A y \in starts : x <= y
            IN <<SubSeq(s, 1, p - 1), SubSeq(s, JoinHeadEnd(s, p), n - 2)>>

\* JOIN: /^\{\{(.+?)\s*\|\s*join\(["'](.+?)["']\)\}\}$/
MatchJoin(s) ==
    IF ~(StartsWith(s, sOpen) /\ EndsWith(s, sClose) /\ Len(s) >= 4) THEN NoMatch
    ELSE MatchJoinBody(SubSeq(s, 3, Len(s) - 2))

\* VALUE: /^\{\{([^}]+)\}\}$/ -- <<path>>
MatchValue(s) ==
    IF ~(StartsWith(s, sOpen) /\ EndsWith(s, sClose) /\ Len(s) >= 5) THEN NoMatch
    ELSE LET inner == SubSeq(s, 3, Len(s) - 2)
         IN IF \E i \in DOMAIN inner : inner[i] = "}" THEN NoMatch ELSE <<inner>>

\* COLUMN_LETTER: /^[A-Z]+$/i
IsColumnLetters(s) == s # <<>> /\ \A i \in DOMAIN s : IsLetter(s[i])

\* the Placeholder object; an absent property is undefined
Placeholder(type, path, separator, formulaType, column, arrayPath, fieldName) ==
    [t |-> "placeholder", type |-> type, path |-> path, separator |-> separator,
     formulaType |-> formulaType, column |-> column, arrayPath |-> arrayPath,
     fieldName |-> fieldName]

\* a formula placeholder that never takes its target for a column letter
FormulaPlaceholderNoColumn(type, target) ==
    LET lastDotIndex == lastIndexOf(target, ".")
        arrayPath == IF lastDotIndex > 0 THEN SubSeq(target, 1, lastDotIndex) ELSE <<>>
        fieldName == IF lastDotIndex > 0 THEN Drop(target, lastDotIndex + 1) ELSE target
    IN Placeholder("formula", target, Undefined, toUpperCase(type),
                   Undefined, Str(arrayPath), Str(fieldName))

\* the formula placeholder of a type and a target: a column letter comes first
FormulaPlaceholder(type, target) ==
    IF IsColumnLetters(target) /\ Len(target) <= 3
    THEN Placeholder("formula", <<>>, Undefined, toUpperCase(type),
                     Str(toUpperCase(target)), Undefined, Undefined)
    ELSE LET lastDotIndex == lastIndexOf(target, ".")
             arrayPath == IF lastDotIndex > 0 THEN SubSeq(target, 1, lastDotIndex) ELSE <<>>
             fieldName == IF lastDotIndex > 0 THEN Drop(target, lastDotIndex + 1) ELSE target
         IN Placeholder("formula", target, Undefined, toUpperCase(type),
                        Undefined, Str(arrayPath), Str(fieldName))

\* a detection that tests the patterns in the order value, join, formula, table
detectPlaceholderValueFirst(cellValue) ==
    IF ~isString(cellValue) THEN Null
    ELSE LET trimmed == trim(cellValue.s)
             tableMatch == MatchTable(trimmed)
             formulaMatch == MatchFormula(trimmed)
             joinMatch == MatchJoin(trimmed)
             valueMatch == MatchValue(trimmed)
         IN IF valueMatch # NoMatch
            THEN Placeholder("value", trim(valueMatch[1]), Undefined, Undefined,
                             Undefined, Undefined, Undefined)
            ELSE IF joinMatch # NoMatch
            THEN Placeholder("join", trim(joinMatch[1]), Str(joinMatch[2]), Undefined,
                             Undefined, Undefined, Undefined)
            ELSE IF formulaMatch # NoMatch
            THEN FormulaPlaceholder(formulaMatch[1], formulaMatch[2])
            ELSE IF tableMatch # NoMatch
            THEN Placeholder("table", trim(tableMatch[1]), Undefined, Undefined,
                             Undefined, Undefined, Undefined)
            ELSE Null

\* detectPlaceholder(cellValue): null when nothing matches
detectPlaceholder(cellValue) ==
    IF ~isString(cellValue) THEN Null
    ELSE LET trimmed == trim(cellValue.s)
             tableMatch == MatchTable(trimmed)
             formulaMatch == MatchFormula(trimmed)
             joinMatch == MatchJoin(trimmed)
             valueMatch == MatchValue(trimmed)
         IN IF tableMatch # NoMatch
            THEN Placeholder("table", trim(tableMatch[1]), Undefined, Undefined,
                             Undefined, Undefined, Undefined)
            ELSE IF formulaMatch # NoMatch
            THEN FormulaPlaceholder(formulaMatch[1], formulaMatch[2])
            ELSE IF joinMatch # NoMatch
            THEN Placeholder("join", trim(joinMatch[1]), Str(joinMatch[2]), Undefined,
                             Undefined, Undefined, Undefined)
            ELSE IF valueMatch # NoMatch
            THEN Placeholder("value", trim(valueMatch[1]), Undefined, Undefined,
                             Undefined, Undefined, Undefined)
            ELSE Null

(***************************************************************************)
(* Numbers: exact fractions stand for the doubles of the code.             *)
(***************************************************************************)
RatAdd(a, b) == Frac(a.num * b.den + b.num * a.den, a.den * b.den)
RatLess(a, b) == a.num * b.den < b.num * a.den
RatDivInt(a, n) == Frac(a.num, a.den * n)

RECURSIVE Pow10(_)
Pow10(k) == IF k = 0 THEN 1 ELSE 10 * Pow10(k - 1)
RECURSIVE DigitsToNat(_)
DigitsToNat(s) ==
    IF s = <<>> THEN 0
    ELSE 10 * DigitsToNat(SubSeq(s, 1, Len(s) - 1)) + (IndexIn(Digits, s[Len(s)]) - 1)

\* Number(s) for a string: surrounding white space is dropped, the empty
\* string is 0, a decimal literal (sign, digits, optional fraction) is its
\* value, and any other text is NaN.  Exponents, hexadecimal literals and
\* Infinity are not modelled; the data of the model holds none.
Number(s) ==
    LET t == trim(s)
        signed == t # <<>> /\ t[1] \in {"+", "-"}
        body == IF signed THEN Tail(t) ELSE t
        parts == split(body, ".")
        ip == parts[1]
        fp == IF Len(parts) = 2 THEN parts[2] ELSE <<>>
        valid == /\ Len(parts) <= 2
                 /\ Len(ip) + Len(fp) >= 1
                 /\ \A i \in DOMAIN ip : IsDigit(ip[i])
                 /\ \A i \in DOMAIN fp : IsDigit(fp[i])
        mag == DigitsToNat(ip) * Pow10(Len(fp)) + DigitsToNat(fp)
    IN IF t = <<>> THEN Num(0)
       ELSE IF ~valid THEN NaN
       ELSE Frac(IF signed /\ t[1] = "-" THEN -mag ELSE mag, Pow10(Len(fp)))

\* _.sum, _.mean, _.min, _.max of a non-empty list of numbers
RECURSIVE sum(_)
sum(values) == IF values = <<>> THEN Num(0) ELSE RatAdd(Head(values), sum(Tail(values)))
mean(values) == RatDivInt(sum(values), Len(values))
RECURSIVE min(_)
min(values) ==
    IF Len(values) = 1 THEN values[1]
    ELSE LET m == min(Tail(values)) IN IF RatLess(m, Head(values)) THEN m ELSE Head(values)
RECURSIVE max(_)
max(values) ==
    IF Len(values) = 1 THEN values[1]
    ELSE LET m == max(Tail(values)) IN IF RatLess(Head(values), m) THEN m ELSE Head(values)

\* Array.prototype.filter(v => !isNaN(v))
RECURSIVE FilterNotNaN(_)
FilterNotNaN(values) ==
    IF values = <<>> THEN <<>>
    ELSE (IF isNaN(Head(values)) THEN <<>> ELSE <<Head(values)>>) \o FilterNotNaN(Tail(values))

(***************************************************************************)
(* 3. Cell rendering: values.                                              *)
(***************************************************************************)
\* Array.prototype.join on a list of strings
RECURSIVE JoinStrings(_, _)
JoinStrings(parts, sep) ==
    IF parts = <<>> THEN <<>>
    ELSE IF Len(parts) = 1 THEN parts[1]
    ELSE parts[1] \o sep \o JoinStrings(Tail(parts), sep)

\* String(value).  A number that is no integer is written num/den: the
\* digits of a double are not modelled.
RECURSIVE ToStr(_)
ToStr(v) ==
    CASE v.t = "string" -> v.s
      [] v.t = "number" ->
            IF v.den = 1 THEN IntToString(v.num)
            ELSE IntToString(v.num) \o <<"/">> \o IntToString(v.den)
      [] v.t = "NaN" -> <<"N","a","N">>
      [] v.t = "boolean" -> IF v.b THEN <<"t","r","u","e">> ELSE <<"f","a","l","s","e">>
      [] v.t = "null" -> <<"n","u","l","l">>
      [] v.t = "undefined" -> <<"u","n","d","e","f","i","n","e","d">>
      [] v.t = "array" ->
            JoinStrings([i \in DOMAIN v.items |->
                            IF isNil(v.items[i]) THEN <<>> ELSE ToStr(v.items[i])], <<",">>)
      [] v.t = "date" -> v.iso
      [] v.t = "bigint" -> IntToString(v.n)
      [] OTHER -> <<"[","o","b","j","e","c","t"," ","O","b","j","e","c","t","]">>

\* the entries of an object that JSON.stringify keeps
RECURSIVE DefinedEntries(_)
DefinedEntries(fields) ==
    IF fields = <<>> THEN <<>>
    ELSE (IF isUndefined(Head(fields).v) THEN <<>> ELSE <<Head(fields)>>)
            \o DefinedEntries(Tail(fields))

\* JSON.stringify(value); the strings of the model need no escaping
RECURSIVE JSONStringify(_)
JSONStringify(v) ==
    CASE v.t = "string" -> <<"\"">> \o v.s \o <<"\"">>
      [] v.t \in {"null", "undefined", "NaN"} -> <<"n","u","l","l">>
      [] v.t = "array" ->
            <<"[">> \o JoinStrings([i \in DOMAIN v.items |-> JSONStringify(v.items[i])],
                                   <<",">>) \o <<"]">>
      [] v.t = "object" ->
            LET kept == DefinedEntries(v.fields)
            IN <<"{">> \o JoinStrings([i \in DOMAIN kept |->
                                          <<"\"">> \o kept[i].k \o <<"\"",":">>
                                              \o JSONStringify(kept[i].v)], <<",">>)
                   \o <<"}">>
      [] OTHER -> ToStr(v)

\* whether JSON.stringify meets a BigInt in a value, which makes it throw a
\* TypeError
RECURSIVE ContainsBigInt(_)
ContainsBigInt(v) ==
    CASE v.t = "bigint" -> TRUE
      [] v.t = "array" -> \E i \in DOMAIN v.items : ContainsBigInt(v.items[i])
      [] v.t = "object" -> \E i \in DOMAIN v.fields : ContainsBigInt(v.fields[i].v)
      [] OTHER -> FALSE

AllDigits(s) == \A i \in DOMAIN s : IsDigit(s[i])
\* the length of the run of digits that starts s
RECURSIVE DigitRun(_)
DigitRun(s) == IF s # <<>> /\ IsDigit(Head(s)) THEN 1 + DigitRun(Tail(s)) ELSE 0

\* (Z|[+-]\d{2}:?\d{2})?$ over the whole of s
IsZoneTail(s) ==
    \/ s = <<>>
    \/ s = <<"Z">>
    \/ /\ Len(s) = 5 /\ s[1] \in {"+", "-"} /\ AllDigits(Drop(s, 1))
    \/ /\ Len(s) = 6 /\ s[1] \in {"+", "-"} /\ AllDigits(SubSeq(s, 2, 3))
       /\ s[4] = ":" /\ AllDigits(Drop(s, 4))

\* (:\d{2})?(\.\d+)?(Z|[+-]\d{2}:?\d{2})?$ over the whole of s
IsTimeTail(s) ==
    LET afterSec == IF Len(s) >= 3 /\ s[1] = ":" /\ AllDigits(SubSeq(s, 2, 3))
                    THEN Drop(s, 3) ELSE s
        afterFrac == IF Len(afterSec) >= 2 /\ afterSec[1] = "." /\ IsDigit(afterSec[2])
                     THEN Drop(afterSec, 1 + DigitRun(Tail(afterSec))) ELSE afterSec
    IN IsZoneTail(afterFrac)

\* /^\d{4}-\d{2}-\d{2}(T\d{2}:\d{2}(:\d{2})?(\.\d+)?(Z|[+-]\d{2}:?\d{2})?)?$/
IsStrictIsoDate(s) ==
    /\ Len(s) >= 10
    /\ AllDigits(SubSeq(s, 1, 4)) /\ s[5] = "-"
    /\ AllDigits(SubSeq(s, 6, 7)) /\ s[8] = "-"
    /\ AllDigits(SubSeq(s, 9, 10))
    /\ \/ Len(s) = 10
       \/ /\ Len(s) >= 16
          /\ s[11] = "T"
          /\ AllDigits(SubSeq(s, 12, 13)) /\ s[14] = ":"
          /\ AllDigits(SubSeq(s, 15, 16))
          /\ IsTimeTail(Drop(s, 16))

\* a Date.parse that gives a time stamp for every string of the strict form
DateParsesAlways(s) == Len(s) >= 10

\* whether Date.parse gives a time stamp for a string of the strict form:
\* the month, the day and the time of day are in range.  (A day the month
\* does not have, such as February 30, is not modelled.)
DateParses(s) ==
    /\ DigitsToNat(SubSeq(s, 6, 7)) \in 1..12
    /\ DigitsToNat(SubSeq(s, 9, 10)) \in 1..31
    /\ Len(s) > 10 => /\ DigitsToNat(SubSeq(s, 12, 13)) \in 0..23
                      /\ DigitsToNat(SubSeq(s, 15, 16)) \in 0..59

\* new Date(Date.parse(s)), kept as the text it was parsed from
DateOf(s) == [t |-> "date", iso |-> s]

\* RenderOptions
RenderOptions(autoParseNumbers) == [autoParseNumbers |-> autoParseNumbers]

\* a renderValue that parses numeric strings whatever the options say
renderValueAlwaysParse(path, scopes, options) ==
    LET value == resolve(path, scopes)
        trimmed == trim(value.s)
    IN CASE isNil(value) -> EmptyString
         [] value.t = "date" -> value
         [] isNumber(value) -> value
         [] isString(value) ->
                IF trimmed = <<>> THEN value
                ELSE IF ~isNaN(Number(trimmed)) THEN Number(trimmed)
                ELSE IF IsStrictIsoDate(trimmed) /\ DateParses(trimmed)
                     THEN DateOf(trimmed)
                ELSE value
         [] isBoolean(value) -> value
         [] OTHER -> IF ContainsBigInt(value) THEN Thrown("TypeError")
                     ELSE Str(JSONStringify(value))

\* renderValue(path, scopes, options)
renderValue(path, scopes, options) ==
    LET value == resolve(path, scopes)
        trimmed == trim(value.s)
    IN CASE isNil(value) -> EmptyString
         [] value.t = "date" -> value
         [] isNumber(value) -> value
         [] isString(value) ->
                IF trimmed = <<>> THEN value
                ELSE IF options.autoParseNumbers /\ ~isNaN(Number(trimmed))
                     THEN Number(trimmed)
                ELSE IF IsStrictIsoDate(trimmed) /\ DateParses(trimmed)
                     THEN DateOf(trimmed)
                ELSE value
         [] isBoolean(value) -> value
         [] OTHER -> IF ContainsBigInt(value) THEN Thrown("TypeError")
                     ELSE Str(JSONStringify(value))

(***************************************************************************)
(* 3. Cell rendering: formulas.                                            *)
(***************************************************************************)
sErrorPrefix == <<"#","E","R","R","O","R",":"," ">>
sFieldQ == <<"F","i","e","l","d"," ","'">>
sNotFoundInTable ==
    <<"'"," ","n","o","t"," ","f","o","u","n","d"," ","i","n"," ","t","a","b","l","e">>
sNoColumnSpecified ==
    <<"N","o"," ","c","o","l","u","m","n"," ","s","p","e","c","i","f","i","e","d"," ",
      "f","o","r"," ","f","o","r","m","u","l","a">>
sNoTableOrPath ==
    <<"N","o"," ","t","a","b","l","e"," ","o","r"," ","a","r","r","a","y"," ",
      "p","a","t","h"," ","f","o","u","n","d"," ","f","o","r"," ","f","o","r","m","u","l","a">>
sUnknownFormulaType ==
    <<"U","n","k","n","o","w","n"," ","f","o","r","m","u","l","a"," ","t","y","p","e",":"," ">>
sSUM == <<"S","U","M">>
sAVERAGE == <<"A","V","E","R","A","G","E">>
sCOUNT == <<"C","O","U","N","T">>
sMIN == <<"M","I","N">>
sMAX == <<"M","A","X">>

\* ERROR_MESSAGES, each behind the `#ERROR: ` prefix renderFormula puts first
ErrFieldNotFound(field) == Str(sErrorPrefix \o sFieldQ \o field \o sNotFoundInTable)
ErrNoColumnSpecified == Str(sErrorPrefix \o sNoColumnSpecified)
ErrNoTableOrPath == Str(sErrorPrefix \o sNoTableOrPath)
ErrUnknownFormulaType(type) == Str(sErrorPrefix \o sUnknownFormulaType \o type)

\* the formula object {formula: string}
FormulaObj(text) == [t |-> "formula", formula |-> text]

\* TableRenderInfo; fieldColumnMap is a Map, kept as its list of entries
TableRenderInfo(startRow, endRow, path, fieldColumnMap) ==
    [t |-> "tableInfo", startRow |-> startRow, endRow |-> endRow,
     path |-> path, fieldColumnMap |-> fieldColumnMap]

\* Map.prototype.get / has / set on a list of entries with string keys
MapHas(m, key) == \E i \in DOMAIN m : m[i].k = key
MapGet(m, key) ==
    IF MapHas(m, key) THEN m[CHOOSE i \in DOMAIN m : m[i].k = key].v ELSE Undefined
MapSet(m, key, v) ==
    IF MapHas(m, key)
    THEN [i \in DOMAIN m |-> IF m[i].k = key THEN KV(key, v) ELSE m[i]]
    ELSE Append(m, KV(key, v))

\* truthiness of a value that is a string or undefined (`!column`, `!fieldName`)
Truthy(v) == isString(v) /\ v.s # <<>>

\* `${formulaType}(${column}${startRow}:${column}${endRow})`
FormulaText(formulaType, column, startRow, endRow) ==
    formulaType \o <<"(">> \o column \o IntToString(startRow) \o <<":">>
        \o column \o IntToString(endRow) \o <<")">>

\* a coercion that takes numbers only and leaves numeric strings out
CoerceFieldNumbersOnly(item, fieldName) ==
    LET val == get(item, fieldName) IN IF isNumber(val) THEN val ELSE NaN

\* a value as a number of the data fallback, NaN when it is none
CoerceValue(val) ==
    IF isNumber(val) THEN val
    ELSE IF isString(val) /\ trim(val.s) # <<>> /\ ~isNaN(Number(val.s))
    THEN Number(val.s)
    ELSE NaN

\* the value an element contributes to the data fallback, NaN when it has none
CoerceField(item, fieldName) == CoerceValue(get(item, fieldName))

\* the numbers the elements of a non-empty array hold in a field
FieldValues(arr, fieldName) ==
    FilterNotNaN([i \in DOMAIN arr.items |-> CoerceField(arr.items[i], fieldName)])

\* the switch over the formula type of the data fallback
Aggregate(formulaType, values) ==
    CASE formulaType = sSUM -> sum(values)
      [] formulaType = sAVERAGE -> mean(values)
      [] formulaType = sCOUNT -> Num(Len(values))
      [] formulaType = sMIN -> min(values)
      [] formulaType = sMAX -> max(values)
      [] OTHER -> ErrUnknownFormulaType(formulaType)

\* the data fallback over the values found in the field
FallbackOfValues(formulaType, values) ==
    IF Len(values) = 0 THEN Num(0) ELSE Aggregate(formulaType, values)

\* the data fallback over the value of the array path
FallbackOfArray(formulaType, arr, fieldName) ==
    IF ~isArray(arr) \/ arr.items = <<>> THEN Num(0)
    ELSE FallbackOfValues(formulaType, FieldValues(arr, fieldName))

\* a fallback that computes a number whatever the target is
FormulaFallbackNoCheck(formulaType, fieldName, arrayPath, dat) ==
    IF ~Truthy(arrayPath) \/ ~Truthy(fieldName) THEN Num(0)
    ELSE FallbackOfArray(formulaType, get(dat, arrayPath.s), fieldName.s)

\* renderFormula without a usable tableInfo: computed from the root data
FormulaFallback(formulaType, fieldName, arrayPath, dat) ==
    IF ~Truthy(arrayPath) \/ ~Truthy(fieldName) THEN ErrNoTableOrPath
    ELSE FallbackOfArray(formulaType, get(dat, arrayPath.s), fieldName.s)

\* a table branch that looks the field up even when a column is given
FormulaFromTableFieldFirst(formulaType, columnOrField, fieldName, tableInfo) ==
    LET lookup == Truthy(fieldName)
        column == IF lookup THEN MapGet(tableInfo.fieldColumnMap, fieldName.s)
                  ELSE columnOrField
    IN IF lookup /\ ~Truthy(column) THEN ErrFieldNotFound(fieldName.s)
       ELSE IF ~Truthy(column) THEN ErrNoColumnSpecified
       ELSE FormulaObj(FormulaText(formulaType, column.s, tableInfo.startRow,
                                   tableInfo.endRow))

\* renderFormula with a tableInfo whose rows are positive: a range formula
FormulaFromTable(formulaType, columnOrField, fieldName, tableInfo) ==
    LET lookup == ~Truthy(columnOrField) /\ Truthy(fieldName)
        column == IF lookup THEN MapGet(tableInfo.fieldColumnMap, fieldName.s)
                  ELSE columnOrField
    IN IF lookup /\ ~Truthy(column) THEN ErrFieldNotFound(fieldName.s)
       ELSE IF ~Truthy(column) THEN ErrNoColumnSpecified
       ELSE FormulaObj(FormulaText(formulaType, column.s, tableInfo.startRow,
                                   tableInfo.endRow))

\* renderFormula(formulaType, columnOrField, fieldName, arrayPath, tableInfo, data)
renderFormula(formulaType, columnOrField, fieldName, arrayPath, tableInfo, dat) ==
    IF tableInfo # Null /\ tableInfo.startRow > 0 /\ tableInfo.endRow > 0
    THEN FormulaFromTable(formulaType, columnOrField, fieldName, tableInfo)
    ELSE FormulaFallback(formulaType, fieldName, arrayPath, dat)

(***************************************************************************)
(* 3. Cell rendering: joins, interpolated strings, rich text, renderCell.  *)
(***************************************************************************)
\* Array.prototype.filter on a list of strings: those that are in no `drop`
RECURSIVE FilterStrings(_, _)
KeepAllStrings(parts, drop) == parts

FilterStrings(parts, drop) ==
    IF parts = <<>> THEN <<>>
    ELSE (IF Head(parts) \in drop THEN <<>> ELSE <<Head(parts)>>)
            \o FilterStrings(Tail(parts), drop)

sObjectObject == <<"[","o","b","j","e","c","t"," ","O","b","j","e","c","t","]">>

\* renderJoin(path, separator, scopes)
renderJoin(path, separator, scopes) ==
    LET lastDotIndex == lastIndexOf(path, ".")
        arrayPath == SubSeq(path, 1, lastDotIndex)
        propertyName == Drop(path, lastDotIndex + 1)
        byProperty == resolve(arrayPath, scopes)
        whole == resolve(path, scopes)
    IN IF lastDotIndex > 0 /\ isArray(byProperty) /\ byProperty.items # <<>>
       THEN Str(JoinStrings(
                FilterStrings([i \in DOMAIN byProperty.items |->
                                  LET val == get(byProperty.items[i], propertyName)
                                  IN IF isNil(val) THEN <<>> ELSE ToStr(val)],
                              {<<>>}),
                separator))
       ELSE IF ~isArray(whole) \/ whole.items = <<>> THEN EmptyString
       ELSE Str(JoinStrings(
                FilterStrings([i \in DOMAIN whole.items |->
                                  IF isNil(whole.items[i]) THEN <<>>
                                  ELSE ToStr(whole.items[i])],
                              {<<>>, sObjectObject}),
                separator))

\* String(result) of calculateFormulaValue, or its error for an unknown type
CalculatedText(formulaType, result) ==
    IF isString(result) THEN sErrorPrefix \o sUnknownFormulaType \o formulaType
    ELSE ToStr(result)

CalculatedOfValues(formulaType, values) ==
    IF Len(values) = 0 THEN <<"0">>
    ELSE CalculatedText(formulaType, Aggregate(toUpperCase(formulaType), values))

\* a computation that gives the empty string where there is no array
CalculatedOfArrayOrEmpty(formulaType, arr, fieldName) ==
    IF ~isArray(arr) \/ arr.items = <<>> THEN <<>>
    ELSE CalculatedOfValues(formulaType, FieldValues(arr, fieldName))

CalculatedOfArray(formulaType, arr, fieldName) ==
    IF ~isArray(arr) \/ arr.items = <<>> THEN <<"0">>
    ELSE CalculatedOfValues(formulaType, FieldValues(arr, fieldName))

\* calculateFormulaValue(formulaType, arrayPath, fieldName, scopes)
calculateFormulaValue(formulaType, arrayPath, fieldName, scopes) ==
    CalculatedOfArray(formulaType, resolve(arrayPath, scopes), fieldName)

sInvalidFormulaPath ==
    <<"#","E","R","R","O","R",":"," ","I","n","v","a","l","i","d"," ",
      "f","o","r","m","u","l","a"," ","p","a","t","h",":"," ">>

\* the formula branch of the replace callback
InlineFormula(formulaType, target, lastDotIndex, scopes) ==
    IF lastDotIndex > 0
    THEN calculateFormulaValue(formulaType, SubSeq(target, 1, lastDotIndex),
                               Drop(target, lastDotIndex + 1), scopes)
    ELSE sInvalidFormulaPath \o target

\* the value branch of the replace callback
InlineValue(value) == IF isNil(value) THEN <<>> ELSE ToStr(value)

\* /^#formula\s+(SUM|AVERAGE|COUNT|MIN|MAX)\s+([A-Za-z_][\w.]*)$/i
MatchInlineFormula(expr) ==
    IF Len(expr) >= Len(sHashFormula)
         /\ toUpperCase(SubSeq(expr, 1, Len(sHashFormula))) = toUpperCase(sHashFormula)
    THEN MatchFormulaBody(Drop(expr, Len(sHashFormula)))
    ELSE NoMatch

\* the replace callback once the expression is matched
InlineMatched(expr, formulaMatch, joinMatch, scopes) ==
    IF formulaMatch # NoMatch
    THEN InlineFormula(formulaMatch[1], formulaMatch[2],
                       lastIndexOf(formulaMatch[2], "."), scopes)
    ELSE IF joinMatch # NoMatch
    THEN renderJoin(trim(joinMatch[1]), joinMatch[2], scopes).s
    ELSE InlineValue(resolve(expr, scopes))

InlineExpr(expr, scopes) ==
    InlineMatched(expr, MatchInlineFormula(expr), MatchJoinBody(expr), scopes)

\* the replacement of one {{...}} span of an interpolated string
InlineReplacement(exprContent, scopes) == InlineExpr(trim(exprContent), scopes)

\* INLINE: /\{\{\s*([^}]+?)\s*\}\}/ matched at position i of s: the position
\* of the first `}` of the closing braces, 0 when there is no match at i
InlineCloseAt(s, i) ==
    IF ~(i + 1 <= Len(s) /\ s[i] = "{" /\ s[i + 1] = "{") THEN 0
    ELSE LET closes == {j \in (i + 2)..Len(s) : s[j] = "}"}
         IN IF closes = {} THEN 0
            ELSE LET j == CHOOSE x \in closes : \A y \in closes : x <= y
                 IN IF j >= i + 3 /\ j + 1 <= Len(s) /\ s[j + 1] = "}" THEN j ELSE 0

\* String.prototype.includes
includes(s, p) == \E i \in 1..(Len(s) - Len(p) + 1) : SubSeq(s, i, i + Len(p) - 1) = p

\* the least element of a non-empty set of numbers
Least(set) == CHOOSE x \in set : \A y \in set : x <= y

\* renderInterpolatedString(template, scopes): every match is replaced
RECURSIVE renderInterpolatedString(_, _)
RECURSIVE ReplaceFrom(_, _, _)
RECURSIVE ReplaceAt(_, _, _, _)

\* a replacement of the first match only
ReplaceAtOnce(template, i, j, scopes) ==
    SubSeq(template, 1, i - 1)
      \o InlineReplacement(SubSeq(template, i + 2, j - 1), scopes)
      \o Drop(template, j + 1)

\* the text with the match at i..j+1 and the matches after it replaced
ReplaceAt(template, i, j, scopes) ==
    SubSeq(template, 1, i - 1)
      \o InlineReplacement(SubSeq(template, i + 2, j - 1), scopes)
      \o renderInterpolatedString(Drop(template, j + 1), scopes)

ReplaceFrom(template, starts, scopes) ==
    IF starts = {} THEN template
    ELSE ReplaceAt(template, Least(starts), InlineCloseAt(template, Least(starts)), scopes)

renderInterpolatedString(template, scopes) ==
    ReplaceFrom(template, {i \in DOMAIN template : InlineCloseAt(template, i) # 0},
                scopes)

\* a rich text value {richText: [{text, font}, ...]}
RichText(fragments) == [t |-> "richText", richText |-> fragments]

\* the loop of handleRichText over the fragments that are left
RECURSIVE RichTextLoop(_, _, _, _, _)
RECURSIVE RichTextStep(_, _, _, _, _, _, _)

\* the body of the loop for one fragment; buffered is the buffer with it
RichTextStep(fragment, buffered, fragments, result, buffer, inPlaceholder, scopes) ==
    IF includes(fragment.text, sOpen) \/ inPlaceholder
    THEN IF includes(fragment.text, sClose)
         THEN RichTextLoop(
                  Tail(fragments),
                  Append(result,
                         [text |-> renderInterpolatedString(
                                       JoinStrings([k \in DOMAIN buffered |->
                                                       buffered[k].text], <<>>),
                                       scopes),
                          font |-> buffered[1].font]),
                  <<>>, FALSE, scopes)
         ELSE RichTextLoop(Tail(fragments), result, buffered, TRUE, scopes)
    ELSE RichTextLoop(Tail(fragments), Append(result, fragment), buffer,
                      inPlaceholder, scopes)

RichTextLoop(fragments, result, buffer, inPlaceholder, scopes) ==
    IF fragments = <<>> THEN result \o buffer
    ELSE RichTextStep(Head(fragments), Append(buffer, Head(fragments)), fragments,
                      result, buffer, inPlaceholder, scopes)

\* handleRichText(cellValue, scopes)
handleRichText(cellValue, scopes) ==
    IF cellValue.t # "richText" THEN cellValue
    ELSE RichText(RichTextLoop(cellValue.richText, <<>>, <<>>, FALSE, scopes))

\* the switch of renderCell over the placeholder that was detected, and what
\* follows it; a formula placeholder falls through the switch
RenderDetected(placeholder, cellValue, scopes, options) ==
    IF placeholder # Null /\ placeholder.type = "value"
    THEN renderValue(placeholder.path, scopes, options)
    ELSE IF placeholder # Null /\ placeholder.type = "join"
    THEN renderJoin(placeholder.path, placeholder.separator.s, scopes)
    ELSE IF placeholder # Null /\ placeholder.type = "table"
    THEN cellValue
    ELSE IF isString(cellValue) /\ includes(cellValue.s, sOpen)
    THEN Str(renderInterpolatedString(cellValue.s, scopes))
    ELSE IF cellValue.t = "richText"
    THEN handleRichText(cellValue, scopes)
    ELSE cellValue

\* renderCell(cellValue, scopes, options)
renderCell(cellValue, scopes, options) ==
    RenderDetected(detectPlaceholder(cellValue), cellValue, scopes, options)

(***************************************************************************)
(* 4. The worksheet.  A worksheet is the sequence of its rows, the row     *)
(* number being the index.  Of a row the model keeps the cell values (null *)
(* for an empty cell), the hidden flag and the height.  Three more fields  *)
(* are history and are read by no operation: orig is the number the row    *)
(* has in the template (0 for an inserted row), by is the anchor row of    *)
(* the expansion that inserted it (0 for a template's own row) and elem is *)
(* the index of the array element it was rendered for.  They travel with   *)
(* the cell values.  The templates carry no merged cells, images or print  *)
(* area.                                                                   *)
(***************************************************************************)
Row(cells, hidden, height, orig, by, elem) ==
    [cells |-> cells, hidden |-> hidden, height |-> height,
     orig |-> orig, by |-> by, elem |-> elem]

EmptyRow == Row(<<>>, FALSE, Undefined, 0, 0, 0)

Maximum(a, b) == IF a >= b THEN a ELSE b

\* worksheet.getRow(n): a row past the end is a new empty row
getRow(worksheet, n) == IF n \in DOMAIN worksheet THEN worksheet[n] ELSE EmptyRow

\* the worksheet once the row that getRow(n) returned has become `row`
PutRow(worksheet, n, row) ==
    [i \in 1..Maximum(Len(worksheet), n) |-> IF i = n THEN row ELSE getRow(worksheet, i)]

\* row.getCell(c).value
CellAt(row, c) == IF c \in DOMAIN row.cells THEN row.cells[c] ELSE Null

\* worksheet.insertRow(pos, []): the cell values and the height of the rows
\* from pos on move one row down; the hidden flag belongs to the row number
\* and stays where it is
insertRow(worksheet, pos) ==
    [i \in 1..Maximum(Len(worksheet) + 1, pos) |->
        IF i < pos THEN getRow(worksheet, i)
        ELSE IF i = pos
        THEN [EmptyRow EXCEPT !.hidden = getRow(worksheet, i).hidden,
                              !.height = getRow(worksheet, i).height]
        ELSE [getRow(worksheet, i - 1) EXCEPT !.hidden = getRow(worksheet, i).hidden]]

\* columnNumberToLetter(num)
RECURSIVE columnNumberToLetter(_)
columnNumberToLetter(num) ==
    IF num <= 0 THEN <<>>
    ELSE LET mod == (num - 1) % 26
         IN columnNumberToLetter((num - mod) \div 26) \o <<Upper[mod + 1]>>

\* \w+(?:\.\w+)* over the whole of p
IsFieldPath(p) ==
    /\ p # <<>>
    /\ \A i \in DOMAIN p : IsWordChar(p[i]) \/ p[i] = "."
    /\ p[1] # "." /\ p[Len(p)] # "."
    /\ \A i \in 1..(Len(p) - 1) : ~(p[i] = "." /\ p[i + 1] = ".")

\* /\{\{(\w+(?:\.\w+)*)\}\}/ matched at position i of s: the position of the
\* last character of the group, 0 when there is no match at i
FieldPathEndAt(s, i) ==
    IF ~(i + 1 <= Len(s) /\ s[i] = "{" /\ s[i + 1] = "{") THEN 0
    ELSE LET stops == {j \in (i + 2)..Len(s) : ~(IsWordChar(s[j]) \/ s[j] = ".")}
         IN IF stops = {} THEN 0
            ELSE LET j == CHOOSE x \in stops : \A y \in stops : x <= y
                 IN IF /\ IsFieldPath(SubSeq(s, i + 2, j - 1))
                       /\ j + 1 <= Len(s) /\ s[j] = "}" /\ s[j + 1] = "}"
                    THEN j - 1 ELSE 0

\* the groups of the successive matches of the regular expression in s
RECURSIVE FieldPaths(_)
FieldPaths(s) ==
    LET starts == {i \in DOMAIN s : FieldPathEndAt(s, i) # 0}
    IN IF starts = {} THEN <<>>
       ELSE LET i == CHOOSE x \in starts : \A y \in starts : x <= y
                e == FieldPathEndAt(s, i)
            IN <<SubSeq(s, i + 2, e)>> \o FieldPaths(Drop(s, e + 2))

\* the body of the while loop of extractRowTemplate, for the matches left
RECURSIVE RecordFields(_, _, _)
RecordFields(fieldColumnMap, fieldPaths, columnLetter) ==
    IF fieldPaths = <<>> THEN fieldColumnMap
    ELSE LET fieldPath == Head(fieldPaths)
             segments == split(fieldPath, ".")
             lastSegment == segments[Len(segments)]
             withPath == MapSet(fieldColumnMap, fieldPath, Str(columnLetter))
             withSegment == IF lastSegment # <<>> /\ ~MapHas(withPath, lastSegment)
                            THEN MapSet(withPath, lastSegment, Str(columnLetter))
                            ELSE withPath
         IN RecordFields(withSegment, Tail(fieldPaths), columnLetter)

\* the fieldColumnMap of extractRowTemplate after the cells 1..colNumber
RECURSIVE FieldColumnMapUpTo(_, _)
FieldColumnMapUpTo(row, colNumber) ==
    IF colNumber = 0 THEN <<>>
    ELSE LET value == row.cells[colNumber]
             cellValue == IF isString(value) THEN value.s ELSE <<>>
         IN RecordFields(FieldColumnMapUpTo(row, colNumber - 1), FieldPaths(cellValue),
                         columnNumberToLetter(colNumber))

\* extractRowTemplate(row, worksheet): the cell templates by column number,
\* and the map from field to column letter
extractRowTemplate(row) ==
    [templates |-> row.cells,
     fieldColumnMap |-> FieldColumnMapUpTo(row, Len(row.cells))]

\* applyRowTemplate(newRow, templates, scopes, options)
applyRowTemplate(newRow, templates, scopes, options) ==
    [newRow EXCEPT !.cells =
        [c \in 1..Maximum(Len(newRow.cells), Len(templates)) |->
            IF c \in DOMAIN templates THEN renderCell(templates[c], scopes, options)
            ELSE newRow.cells[c]]]

\* a clearAndHideRow that hides the row and keeps its cell values
hideRowOnly(row) ==
    [row EXCEPT !.hidden = TRUE, !.height = Num(0)]

\* clearAndHideRow(row)
clearAndHideRow(row) ==
    [row EXCEPT !.cells = [c \in DOMAIN row.cells |-> Null],
                !.hidden = TRUE, !.height = Num(0)]

\* hide entries: {rows, insertedAt, rowsInserted}
HideEntry(rows, insertedAt, rowsInserted) ==
    [rows |-> rows, insertedAt |-> insertedAt, rowsInserted |-> rowsInserted]

\* the loop of calculateHideOffset from j on (entry indexes are 1-based here)
RECURSIVE HideOffsetFrom(_, _, _)
HideOffsetFrom(entryIndex, entries, j) ==
    IF j > Len(entries) THEN 0
    ELSE (IF /\ entries[j].insertedAt < entries[entryIndex].insertedAt
             /\ entries[j].rowsInserted > 0
          THEN entries[j].rowsInserted ELSE 0)
            + HideOffsetFrom(entryIndex, entries, j + 1)

\* an offset that forgets the rows inserted by the anchors processed later
noHideOffset(entryIndex, entries) == 0

\* an offset that counts the entries recorded before the entry, not after it
calculateHideOffsetBefore(entryIndex, entries) ==
    HideOffsetFrom(entryIndex, SubSeq(entries, 1, entryIndex), 1)

\* calculateHideOffset(entryIndex, hideEntries)
calculateHideOffset(entryIndex, entries) ==
    HideOffsetFrom(entryIndex, entries, entryIndex + 1)

(***************************************************************************)
(* 5. Table expansion.                                                     *)
(***************************************************************************)
\* an insert position that is the anchor row for every element
insertAtAnchor(anchorRowIndex, index) == anchorRowIndex

\* insertPosition of the element with (0-based) index `index`
insertPositionOf(anchorRowIndex, index) == anchorRowIndex + index

\* a scope chain with the element behind the scopes of the call
localScopesRootFirst(item, allScopes) == allScopes \o <<item>>

\* localScopes = [item, ...allScopes]
localScopes(item, allScopes) == <<item>> \o allScopes

\* the forEach of renderTable over the elements from `index` on
RECURSIVE InsertRows(_, _, _, _, _, _, _)
InsertRows(worksheet, anchorRowIndex, templates, arr, index, allScopes, options) ==
    IF index >= Len(arr.items) THEN worksheet
    ELSE LET insertPosition == insertPositionOf(anchorRowIndex, index)
             item == arr.items[index + 1]
             inserted == insertRow(worksheet, insertPosition)
             newRow == applyRowTemplate(inserted[insertPosition], templates,
                                        localScopes(item, allScopes), options)
             marked == [newRow EXCEPT !.by = anchorRowIndex, !.elem = index]
         IN InsertRows(PutRow(inserted, insertPosition, marked), anchorRowIndex,
                       templates, arr, index + 1, allScopes, options)

\* TableRenderResult, and the worksheet renderTable leaves
TableRenderResult(worksheet, tableInfo, rowsToHide) ==
    [worksheet |-> worksheet, tableInfo |-> tableInfo, rowsToHide |-> rowsToHide]

\* renderTable(worksheet, anchorRowIndex, arrayPath, scopes, rootData, _, options)
renderTable(worksheet, anchorRowIndex, arrayPath, scopes, rootData, options) ==
    LET allScopes == scopes \o <<rootData>>
        arr == resolve(arrayPath, allScopes)
        templateRowIndex == anchorRowIndex + 1
        templateRow == getRow(worksheet, templateRowIndex)
        \* getRow makes the template row when the anchor is the last row
        withTemplateRow == PutRow(worksheet, templateRowIndex, templateRow)
        extracted == extractRowTemplate(templateRow)
    IN IF ~isArray(arr)
       THEN TableRenderResult(worksheet, Null, <<anchorRowIndex, anchorRowIndex + 1>>)
       ELSE IF arr.items = <<>>
       THEN TableRenderResult(withTemplateRow, Null,
                              <<anchorRowIndex, anchorRowIndex + 1>>)
       ELSE LET rowsToAdd == Len(arr.items)
                startRow == anchorRowIndex
                endRow == anchorRowIndex + rowsToAdd - 1
            IN TableRenderResult(
                   InsertRows(withTemplateRow, anchorRowIndex, extracted.templates, arr, 0,
                              allScopes, options),
                   TableRenderInfo(startRow, endRow, arrayPath, extracted.fieldColumnMap),
                   <<anchorRowIndex + rowsToAdd, anchorRowIndex + rowsToAdd + 1>>)

(***************************************************************************)
(* 6. Scanning the anchors.                                                *)
(***************************************************************************)
TableMetadata(rowNumber, path) == [rowNumber |-> rowNumber, path |-> path]

\* a scan that records every anchor cell, seen before or not
RECURSIVE ScanCellsNoDedup(_, _, _, _)
ScanCellsNoDedup(found, row, rowNumber, c) ==
    IF c > Len(row.cells) THEN found
    ELSE LET placeholder == detectPlaceholder(row.cells[c])
         IN IF placeholder # Null /\ placeholder.type = "table"
            THEN ScanCellsNoDedup(Append(found, TableMetadata(rowNumber, placeholder.path)),
                                  row, rowNumber, c + 1)
            ELSE ScanCellsNoDedup(found, row, rowNumber, c + 1)

\* the callback of scanTables over the cells of one row from column c on;
\* the anchor key is `${rowNumber}:${path}`, so within one row a path is
\* taken once
RECURSIVE ScanCells(_, _, _, _)
ScanCells(found, row, rowNumber, c) ==
    IF c > Len(row.cells) THEN found
    ELSE LET placeholder == detectPlaceholder(row.cells[c])
             seen == \E k \in DOMAIN found :
                        found[k].rowNumber = rowNumber /\ found[k].path = placeholder.path
         IN IF placeholder # Null /\ placeholder.type = "table" /\ ~seen
            THEN ScanCells(Append(found, TableMetadata(rowNumber, placeholder.path)),
                           row, rowNumber, c + 1)
            ELSE ScanCells(found, row, rowNumber, c + 1)

\* worksheet.eachRow of scanTables from row n on
RECURSIVE ScanRows(_, _, _)
ScanRows(found, worksheet, n) ==
    IF n > Len(worksheet) THEN found
    ELSE ScanRows(ScanCells(found, worksheet[n], n, 1), worksheet, n + 1)

\* _.orderBy(tables, ['rowNumber'], ['desc']): a stable sort
RECURSIVE OrderByRowNumberDesc(_)
OrderByRowNumberDesc(found) ==
    IF found = <<>> THEN <<>>
    ELSE LET top == CHOOSE r \in {found[k].rowNumber : k \in DOMAIN found} :
                        \A k \in DOMAIN found : found[k].rowNumber <= r
         IN SelectSeq(found, LAMBDA m : m.rowNumber = top)
              \o OrderByRowNumberDesc(SelectSeq(found, LAMBDA m : m.rowNumber # top))

\* a scan that keeps the anchors in the order of their rows, top to bottom
scanTablesAscending(worksheet) == ScanRows(<<>>, worksheet, 1)

\* scanTables(worksheet)
scanTables(worksheet) == OrderByRowNumberDesc(ScanRows(<<>>, worksheet, 1))

(***************************************************************************)
(* String literals of the data and the templates.                          *)
(***************************************************************************)
sMEDIAN == <<"M","E","D","I","A","N">>
sItems == <<"i","t","e","m","s">>
sPrice == <<"p","r","i","c","e">>
sQty == <<"q","t","y">>
sSvc == <<"s","v","c">>
sAbc == <<"a","b","c">>
s20 == <<" ","2","0"," ">>
sTotal == <<"T","o","t","a","l">>
sColC == <<"C">>
sColD == <<"D">>
sName == <<"n","a","m","e">>
sAge == <<"a","g","e">>
sCompany == <<"c","o","m","p","a","n","y">>
sLocal == <<"L","o","c","a","l">>
sRoot == <<"R","o","o","t">>
sAcme == <<"A","c","m","e">>
Dotted(a, b) == a \o <<".">> \o b

(***************************************************************************)
(* The idle values of the two groups of variables: a specification of a    *)
(* pure function leaves the worksheet idle, and the worksheet's            *)
(* specification makes no call.                                            *)
(***************************************************************************)
NoInfo == Null

WorkbookIdle ==
    /\ pc = "idle"
    /\ data = Undefined
    /\ loaded = <<>>
    /\ sheet = <<>>
    /\ tables = <<>>
    /\ ti = 0
    /\ tableInfoMap = <<>>
    /\ lastTableInfo = NoInfo
    /\ infos = <<>>
    /\ hideEntries = <<>>
    /\ originallyHiddenRows = {}

NoCall ==
    /\ fn = "none"
    /\ args = <<>>
    /\ ret = Undefined

\* all sequences over the elements of the sequence s with at most n elements
RECURSIVE SeqsUpTo(_, _)
SeqsUpTo(s, n) ==
    IF n = 0 THEN {<<>>}
    ELSE LET shorter == SeqsUpTo(s, n - 1)
         IN shorter \cup {Append(q, s[i]) : q \in shorter, i \in DOMAIN s}

(***************************************************************************)
(* 7. processWorkbook over one worksheet.                                  *)
(*                                                                         *)
(* The templates: an optional heading row, an optional row of formulas,    *)
(* then up to MaxTables blocks, a block being an anchor row, its template  *)
(* row and an optional row of formulas below them.                         *)
(***************************************************************************)
Whole(path) == Str(sOpen \o path \o sClose)
AnchorCell(path) == Str(sTableOpen \o <<" ">> \o path \o sClose)
FormulaCell(type, target) ==
    Str(sFormulaOpen \o <<" ">> \o type \o <<" ">> \o target \o sClose)
sMaxLower == <<"m","a","x">>
sHi == <<"H","i"," ">>

TablePaths == {sItems, sSvc}
HeaderKinds == {"none", "hidden"}
FooterKinds == {"none", "totals", "stats"}

\* the template row of a table: the two tables place their fields differently
TemplateCells(path) ==
    IF path = sItems THEN <<Whole(sName), Whole(sQty), Whole(sPrice)>>
    ELSE <<Whole(sPrice), Null, Whole(sQty)>>

FooterCells(kind) ==
    IF kind = "totals"
    THEN <<Str(sTotal), FormulaCell(sSUM, sQty), FormulaCell(sSUM, sColC)>>
    ELSE <<FormulaCell(sSUM, sPrice), FormulaCell(sAVERAGE, Dotted(sItems, sPrice)),
           FormulaCell(sMaxLower, Dotted(sSvc, sQty))>>

PlainRow(cells, hidden) == [cells |-> cells, hidden |-> hidden]

HeaderRows(kind) ==
    IF kind = "none" THEN <<>>
    ELSE <<PlainRow(<<Str(sHi \o sOpen \o sCompany \o sClose)>>, kind = "hidden")>>

FooterRows(kind) ==
    IF kind = "none" THEN <<>> ELSE <<PlainRow(FooterCells(kind), FALSE)>>

RECURSIVE BlockRows(_)
BlockRows(blocks) ==
    IF blocks = <<>> THEN <<>>
    ELSE <<PlainRow(<<AnchorCell(Head(blocks).path)>>, FALSE),
           PlainRow(TemplateCells(Head(blocks).path), FALSE)>>
           \o FooterRows(Head(blocks).footer) \o BlockRows(Tail(blocks))

Layouts ==
    [header : HeaderKinds, lead : FooterKinds,
     blocks : UNION {[1..n -> [path : TablePaths, footer : FooterKinds]] :
                        n \in 0..MaxTables}]

SheetOf(layout) ==
    LET rows == HeaderRows(layout.header) \o FooterRows(layout.lead)
                    \o BlockRows(layout.blocks)
    IN [n \in DOMAIN rows |-> Row(rows[n].cells, rows[n].hidden, Undefined, n, 0, 0)]

\* the data: each of the two paths is missing, a string, or an array of up
\* to MaxLen elements; element i of an array is determined by i
ElementOf(path, i) ==
    Obj(<<KV(sName, Str(<<Upper[i]>>)), KV(sQty, Num(i)),
          KV(sPrice, Num(10 * i + (IF path = sSvc THEN 5 ELSE 0)))>>)
ArrayOf(path, n) == Arr([i \in 1..n |-> ElementOf(path, i)])
ValuesFor(path) == {Undefined, Str(sAbc)} \cup {ArrayOf(path, n) : n \in 0..MaxLen}
DataOf(itemsValue, svcValue) ==
    Obj(<<KV(sCompany, Str(sAcme))>>
          \o (IF isUndefined(itemsValue) THEN <<>> ELSE <<KV(sItems, itemsValue)>>)
          \o (IF isUndefined(svcValue) THEN <<>> ELSE <<KV(sSvc, svcValue)>>))

\* options = {}
DefaultOptions == RenderOptions(FALSE)
\* the options of a call: the default when the caller gave none
OptionsOf(arguments) ==
    IF DOMAIN arguments = {} THEN DefaultOptions ELSE arguments.options

Init ==
    /\ \E layout \in Layouts : loaded = SheetOf(layout)
    /\ \E itemsValue \in ValuesFor(sItems), svcValue \in ValuesFor(sSvc) :
          data = DataOf(itemsValue, svcValue)
    /\ sheet = loaded
    /\ pc = "start"
    /\ tables = <<>>
    /\ ti = 0
    /\ tableInfoMap = <<>>
    /\ lastTableInfo = NoInfo
    /\ infos = <<>>
    /\ hideEntries = <<>>
    /\ originallyHiddenRows = {}
    /\ NoCall

\* lines 827-839: the rows hidden in the template, the anchors, the empty maps
Scan ==
    /\ pc = "start"
    /\ originallyHiddenRows' = {n \in DOMAIN sheet : sheet[n].hidden}
    /\ tables' = scanTables(sheet)
    /\ ti' = 1
    /\ tableInfoMap' = <<>>
    /\ lastTableInfo' = Null
    /\ infos' = <<>>
    /\ hideEntries' = <<>>
    /\ pc' = "expand"
    /\ UNCHANGED <<data, loaded, sheet, fn, args, ret>>

\* lines 844-854: what the loop does with the result of renderTable
RecordResult(result, rowNumber, path) ==
    /\ sheet' = result.worksheet
    /\ tableInfoMap' = IF result.tableInfo # Null
                       THEN MapSet(tableInfoMap, path, result.tableInfo)
                       ELSE tableInfoMap
    /\ lastTableInfo' = IF result.tableInfo # Null THEN result.tableInfo
                        ELSE lastTableInfo
    /\ infos' = Append(infos, result.tableInfo)
    /\ hideEntries' =
          Append(hideEntries,
                 HideEntry(result.rowsToHide, rowNumber,
                           IF result.tableInfo # Null
                           THEN result.tableInfo.endRow - result.tableInfo.startRow + 1
                           ELSE 0))

\* lines 841-855: one iteration of the loop over the anchors
ExpandTable ==
    /\ pc = "expand"
    /\ ti <= Len(tables)
    /\ RecordResult(renderTable(sheet, tables[ti].rowNumber, tables[ti].path, <<>>,
                                data, OptionsOf(args)),
                    tables[ti].rowNumber, tables[ti].path)
    /\ ti' = ti + 1
    /\ UNCHANGED <<pc, data, loaded, tables, originallyHiddenRows, fn, args, ret>>

\* the for loop of lines 861-868 from the entry i on
RECURSIVE HideRowsFrom(_, _, _)
HideRowsFrom(worksheet, entries, i) ==
    IF i > Len(entries) THEN worksheet
    ELSE LET offset == calculateHideOffset(i, entries)
             first == entries[i].rows[1] + offset
             second == entries[i].rows[2] + offset
             afterFirst == PutRow(worksheet, first,
                                  clearAndHideRow(getRow(worksheet, first)))
             afterSecond == PutRow(afterFirst, second,
                                   clearAndHideRow(getRow(afterFirst, second)))
         IN HideRowsFrom(afterSecond, entries, i + 1)

\* lines 861-868: the anchor and template rows are cleared and hidden
HideRows ==
    /\ pc = "expand"
    /\ ti > Len(tables)
    /\ sheet' = HideRowsFrom(sheet, hideEntries, 1)
    /\ pc' = "unhide"
    /\ UNCHANGED <<data, loaded, tables, ti, tableInfoMap, lastTableInfo, infos,
                   hideEntries, originallyHiddenRows, fn, args, ret>>

\* lines 870-874
AnchorTemplateRows(entries) ==
    {entries[i].rows[k] + calculateHideOffset(i, entries) :
        i \in DOMAIN entries, k \in 1..2}

\* lines 876-880: every other hidden row is shown
\* an unhide loop that leaves every flag as it is
UnhideNoRows ==
    /\ pc = "unhide"
    /\ sheet' = sheet
    /\ pc' = "rehide"
    /\ UNCHANGED <<data, loaded, tables, ti, tableInfoMap, lastTableInfo, infos,
                   hideEntries, originallyHiddenRows, fn, args, ret>>

UnhideRows ==
    /\ pc = "unhide"
    /\ sheet' = [n \in DOMAIN sheet |->
                    IF sheet[n].hidden /\ n \notin AnchorTemplateRows(hideEntries)
                    THEN [sheet[n] EXCEPT !.hidden = FALSE]
                    ELSE sheet[n]]
    /\ pc' = "rehide"
    /\ UNCHANGED <<data, loaded, tables, ti, tableInfoMap, lastTableInfo, infos,
                   hideEntries, originallyHiddenRows, fn, args, ret>>

\* a shift that ignores the insertions
NoShiftAmount(originalRowNum, entries) == 0

\* lines 883-888: the rows inserted at or above an original row number
RECURSIVE ShiftAmount(_, _)
ShiftAmount(originalRowNum, entries) ==
    IF entries = <<>> THEN 0
    ELSE (IF Head(entries).rowsInserted > 0 /\ Head(entries).insertedAt <= originalRowNum
          THEN Head(entries).rowsInserted ELSE 0)
            + ShiftAmount(originalRowNum, Tail(entries))

\* lines 891-893
IsTableRow(originalRowNum, found) ==
    \E k \in DOMAIN found :
        originalRowNum = found[k].rowNumber \/ originalRowNum = found[k].rowNumber + 1

\* lines 882-899: the rows hidden in the template are hidden where they are now
RehideRows ==
    /\ pc = "rehide"
    /\ LET targets == {n + ShiftAmount(n, hideEntries) :
                          n \in {m \in originallyHiddenRows : ~IsTableRow(m, tables)}}
           last == IF targets = {} THEN 0
                   ELSE CHOOSE x \in targets : \A y \in targets : y <= x
       IN sheet' = [n \in 1..Maximum(Len(sheet), last) |->
                       IF n \in targets THEN [getRow(sheet, n) EXCEPT !.hidden = TRUE]
                       ELSE getRow(sheet, n)]
    /\ pc' = "final"
    /\ UNCHANGED <<data, loaded, tables, ti, tableInfoMap, lastTableInfo, infos,
                   hideEntries, originallyHiddenRows, fn, args, ret>>

\* a choice of table info that takes the last table for every formula
lastTableInfoAlways(placeholder, infoMap, lastInfo) == lastInfo

\* lines 912-920: the table info a formula placeholder is rendered with
tableInfoFor(placeholder, infoMap, lastInfo) ==
    IF Truthy(placeholder.column) THEN lastInfo
    ELSE IF Truthy(placeholder.arrayPath)
    THEN (IF MapHas(infoMap, placeholder.arrayPath.s)
          THEN MapGet(infoMap, placeholder.arrayPath.s) ELSE Null)
    ELSE IF Truthy(placeholder.fieldName) THEN lastInfo
    ELSE Null

\* lines 904-933: the value the final pass gives a cell, its placeholder known
FinalDetected(placeholder, value, infoMap, lastInfo, dat, options) ==
    IF placeholder # Null /\ placeholder.type = "table" THEN value
    ELSE IF /\ placeholder # Null
            /\ placeholder.type = "formula"
            /\ placeholder.formulaType # <<>>
    THEN renderFormula(placeholder.formulaType, placeholder.column,
                       placeholder.fieldName, placeholder.arrayPath,
                       tableInfoFor(placeholder, infoMap, lastInfo), dat)
    ELSE renderCell(value, <<dat>>, options)

\* lines 903-933: the value the final pass gives a cell
FinalCell(value, infoMap, lastInfo, dat, options) ==
    FinalDetected(detectPlaceholder(value), value, infoMap, lastInfo, dat, options)

\* the position of a cell in the order eachRow and eachCell visit the cells
VisitedBefore(n, c, m, d) == n < m \/ (n = m /\ c < d)

\* the cells whose rendering throws
ThrowingCells(rendered) ==
    {pos \in {<<n, c>> : n \in DOMAIN rendered,
                          c \in UNION {DOMAIN rendered[m] : m \in DOMAIN rendered}} :
        /\ pos[2] \in DOMAIN rendered[pos[1]]
        /\ isThrown(rendered[pos[1]][pos[2]])}

\* the first cell whose rendering throws
FirstThrowing(throwing) ==
    CHOOSE pos \in throwing :
        \A other \in throwing :
            other = pos \/ VisitedBefore(pos[1], pos[2], other[1], other[2])

\* the worksheet when the pass stops at the cell `stop`: the cells visited
\* before it hold their rendered value, the others are as they were
RenderedUpTo(rendered, stop) ==
    [n \in DOMAIN sheet |->
        [sheet[n] EXCEPT !.cells =
            [c \in DOMAIN sheet[n].cells |->
                IF VisitedBefore(n, c, stop[1], stop[2]) THEN rendered[n][c]
                ELSE sheet[n].cells[c]]]]

\* the final pass given the value each cell renders to: no exception is
\* caught, so the first one ends the pass and leaves processWorkbook
FinalPassEnding(rendered, throwing) ==
    IF throwing = {}
    THEN /\ sheet' = [n \in DOMAIN sheet |-> [sheet[n] EXCEPT !.cells = rendered[n]]]
         /\ pc' = "done"
         /\ ret' = ret
    ELSE /\ sheet' = RenderedUpTo(rendered, FirstThrowing(throwing))
         /\ pc' = "threw"
         /\ ret' = rendered[FirstThrowing(throwing)[1]][FirstThrowing(throwing)[2]]

FinalPassWith(rendered) == FinalPassEnding(rendered, ThrowingCells(rendered))

\* the value each cell of the worksheet renders to
RenderedCells ==
    [n \in DOMAIN sheet |->
        [c \in DOMAIN sheet[n].cells |->
            IF sheet[n].cells[c] = Null THEN Null
            ELSE FinalCell(sheet[n].cells[c], tableInfoMap, lastTableInfo, data,
                           OptionsOf(args))]]

\* lines 901-935: every cell that holds a value is rendered
FinalPass ==
    /\ pc = "final"
    /\ FinalPassWith(RenderedCells)
    /\ UNCHANGED <<data, loaded, tables, ti, tableInfoMap, lastTableInfo, infos,
                   hideEntries, originallyHiddenRows, fn, args>>

Next ==
    \/ Scan
    \/ ExpandTable
    \/ HideRows
    \/ UnhideRows
    \/ RehideRows
    \/ FinalPass

Spec == Init /\ [][Next]_vars

(***************************************************************************)
(* Properties of processWorkbook.                                          *)
(***************************************************************************)
\* the loop over the anchors is over: no row moves any more
AllExpanded == pc \in {"unhide", "rehide", "final", "done"}
                  \/ (pc = "expand" /\ ti > Len(tables))

\* the rows that hold the data of the table anchored at anchorRow
DataRowsOf(anchorRow) == {n \in DOMAIN sheet : sheet[n].by = anchorRow}

\* the rows of the sheet that are the template's row number o
RowsFrom(o) == {n \in DOMAIN sheet : sheet[n].orig = o}

\* the value the data holds for the path of a table
ArrayOfTable(k) == get(data, tables[k].path)
Expands(k) == isArray(ArrayOfTable(k)) /\ ArrayOfTable(k).items # <<>>

AllNull(row) == \A c \in DOMAIN row.cells : row.cells[c] = Null
HiddenAndCleared(row) == row.hidden /\ AllNull(row)

\* the cell of the final sheet that comes from the template's cell (o, c)
FinalCellsFrom(o, c) == {sheet[n].cells[c] : n \in RowsFrom(o)}

\* the whole-cell formula placeholders of the template: <<type, target>>
FormulaAt(o, c) ==
    IF isString(loaded[o].cells[c]) THEN MatchFormula(trim(loaded[o].cells[c].s))
    ELSE NoMatch
IsDottedTarget(target) == lastIndexOf(target, ".") > 0

\* C1: once every table is expanded, the TableRenderInfo recorded for each
\* table that expanded spans exactly the rows its data rows occupy, whatever
\* the number of tables on the sheet.
C1_TableInfoIsFinalRows ==
    AllExpanded =>
        \A k \in DOMAIN infos :
            infos[k] # Null =>
                DataRowsOf(tables[k].rowNumber) = infos[k].startRow..infos[k].endRow

\* C2: on a sheet with one table that expanded, a whole-cell formula below
\* the table whose target is a bare field name f that the template row holds
\* as {{f}} receives TYPE(<col><first>:<col><last>), <col> being the column
\* of {{f}} in the template row and first..last the data rows of the table.
C2_BareFieldFormula ==
    (pc = "done" /\ Len(tables) = 1 /\ Expands(1)) =>
        LET anchor == tables[1].rowNumber
            rows == DataRowsOf(anchor)
            first == CHOOSE x \in rows : \A y \in rows : x <= y
            last == CHOOSE x \in rows : \A y \in rows : y <= x
        IN \A o \in DOMAIN loaded : \A c \in DOMAIN loaded[o].cells :
              \A col \in DOMAIN loaded[anchor + 1].cells :
                 (/\ o > anchor + 1
                  /\ FormulaAt(o, c) # NoMatch
                  /\ ~IsDottedTarget(FormulaAt(o, c)[2])
                  /\ loaded[anchor + 1].cells[col] = Whole(FormulaAt(o, c)[2]))
                 => FinalCellsFrom(o, c) =
                      {FormulaObj(FormulaText(toUpperCase(FormulaAt(o, c)[1]),
                                              columnNumberToLetter(col), first, last))}

\* the rows the tables anchored above anchorRow inserted
InsertedAbove(anchorRow) ==
    {n \in DOMAIN sheet : sheet[n].by # 0 /\ sheet[n].by < anchorRow}

\* C3: after processWorkbook, for every anchor the rows at (anchor row + rows
\* inserted by its table + rows inserted by the tables above it) and the one
\* after it are its anchor row and its template row, and both are hidden,
\* cleared and of height zero.
C3_AnchorRowsHiddenAtFinalPosition ==
    pc = "done" =>
        \A k \in DOMAIN tables :
            LET anchor == tables[k].rowNumber
                position == anchor + Cardinality(DataRowsOf(anchor))
                              + Cardinality(InsertedAbove(anchor))
            IN /\ position + 1 \in DOMAIN sheet
               /\ sheet[position].orig = anchor
               /\ sheet[position + 1].orig = anchor + 1
               /\ \A n \in {position, position + 1} :
                     HiddenAndCleared(sheet[n]) /\ sheet[n].height = Num(0)

\* two tables, both expanded, so that the lower anchor has moved twice
C3_Witness ==
    /\ pc = "done"
    /\ Len(tables) = 2
    /\ Expands(1) /\ Expands(2)
    /\ Len(ArrayOfTable(2).items) = MaxLen

\* C4: right after renderTable on an array of N >= 1 elements there are N new
\* rows, at anchorRow..anchorRow+N-1 in element order, and row anchorRow+i
\* holds, in the column of each {{f}} of the template row, element i's f.
C4_RowsInElementOrder ==
    (pc = "expand" /\ ti > 1 /\ Expands(ti - 1)) =>
        LET anchor == tables[ti - 1].rowNumber
            arr == ArrayOfTable(ti - 1)
            N == Len(arr.items)
            templateRow == loaded[anchor + 1]
        IN /\ DataRowsOf(anchor) = anchor..(anchor + N - 1)
           /\ Len(sheet) = Len(loaded) + Cardinality({n \in DOMAIN sheet : sheet[n].by # 0})
           /\ sheet[anchor + N].orig = anchor
           /\ sheet[anchor + N + 1].orig = anchor + 1
           /\ sheet[anchor + N + 1].cells = templateRow.cells
           /\ \A i \in 0..(N - 1) :
                 /\ sheet[anchor + i].elem = i
                 /\ Len(sheet[anchor + i].cells) = Len(templateRow.cells)
                 /\ \A c \in DOMAIN templateRow.cells :
                       sheet[anchor + i].cells[c] =
                          IF templateRow.cells[c] = Null THEN Null
                          ELSE get(arr.items[i + 1],
                                   MatchValue(templateRow.cells[c].s)[1])

\* a table of MaxLen elements has just been expanded above an expanded one
C4_Witness ==
    /\ pc = "expand"
    /\ ti = 3
    /\ Expands(1)
    /\ Expands(2) /\ Len(ArrayOfTable(2).items) = MaxLen

\* C5: an anchor whose path is not an array (missing included) or is an empty
\* array inserts no row and records no table info, and after processWorkbook
\* its anchor row and its template row are hidden with every cell cleared.
C5_NothingToExpand ==
    \A k \in DOMAIN infos :
        ~Expands(k) =>
            /\ infos[k] = Null
            /\ ~MapHas(tableInfoMap, tables[k].path)
            /\ hideEntries[k].rowsInserted = 0
            /\ DataRowsOf(tables[k].rowNumber) = {}
            /\ pc = "done" =>
                  \A o \in {tables[k].rowNumber, tables[k].rowNumber + 1} :
                      /\ Cardinality(RowsFrom(o)) = 1
                      /\ \A n \in RowsFrom(o) : HiddenAndCleared(sheet[n])

\* an anchor over a string, below a table that expanded and moved it down
C5_Witness ==
    /\ pc = "done"
    /\ Len(tables) = 2
    /\ ~Expands(1)
    /\ isString(ArrayOfTable(1))
    /\ Expands(2)

\* the table info of the table that, among the anchors in `among`, was the
\* last in processing order to expand; null when none of them expanded
LastExpandedInfo(among) ==
    LET expanded == {k \in among : infos[k] # Null}
    IN IF expanded = {} THEN Null
       ELSE infos[CHOOSE k \in expanded : \A j \in expanded : j <= k]

\* the table info a formula target is to be rendered with
InfoForTarget(target) ==
    IF IsDottedTarget(target)
    THEN LastExpandedInfo({k \in DOMAIN tables :
                              tables[k].path = SubSeq(target, 1, lastIndexOf(target, "."))})
    ELSE LastExpandedInfo(DOMAIN tables)

\* C6: in the final pass a formula with an array.field target is rendered
\* with the table info recorded for that array path, or from the data when no
\* table of that path expanded, whatever other tables expanded; a formula
\* with a bare column letter or a bare field name is rendered with the table
\* info of the table that expanded last.
C6_FormulaTableInfo ==
    pc = "done" =>
        \A o \in DOMAIN loaded : \A c \in DOMAIN loaded[o].cells :
            FormulaAt(o, c) # NoMatch =>
                LET placeholder == detectPlaceholder(loaded[o].cells[c])
                IN FinalCellsFrom(o, c) =
                      {renderFormula(placeholder.formulaType, placeholder.column,
                                     placeholder.fieldName, placeholder.arrayPath,
                                     InfoForTarget(FormulaAt(o, c)[2]), data)}

\* two expanded tables of different paths and formulas of every kind of target
C6_Witness ==
    /\ pc = "done"
    /\ Len(tables) = 2
    /\ Expands(1) /\ Expands(2)
    /\ tables[1].path # tables[2].path
    /\ \E o \in DOMAIN loaded : \E c \in DOMAIN loaded[o].cells :
          FormulaAt(o, c) # NoMatch /\ IsDottedTarget(FormulaAt(o, c)[2])
    /\ \E o \in DOMAIN loaded : \E c \in DOMAIN loaded[o].cells :
          FormulaAt(o, c) # NoMatch /\ ~IsDottedTarget(FormulaAt(o, c)[2])

(***************************************************************************)
(* Specification of resolve: the scope stack and the path are drawn from   *)
(* bounded sets, then resolve is called once.                              *)
(***************************************************************************)
ResolveScopes ==
    << Obj(<<KV(sName, Str(sLocal))>>),
       Obj(<<KV(sName, Str(sRoot))>>),
       Obj(<<KV(sName, Num(0))>>),
       Obj(<<KV(sName, Bool(FALSE))>>),
       Obj(<<KV(sName, EmptyString)>>),
       Obj(<<KV(sName, Null)>>),
       Obj(<<KV(sName, Undefined), KV(sAge, Num(25))>>),
       Obj(<<KV(sCompany, Obj(<<KV(sName, Str(sAcme))>>))>>),
       Obj(<<KV(sCompany, Null)>>) >>

ResolvePaths == <<sName, sAge, sCompany, Dotted(sCompany, sName)>>

InitResolve ==
    /\ WorkbookIdle
    /\ fn = "none"
    /\ ret = Undefined
    /\ \E i \in DOMAIN ResolvePaths, scopes \in SeqsUpTo(ResolveScopes, MaxScopes) :
          args = [path |-> ResolvePaths[i], scopes |-> scopes]

CallResolve ==
    /\ fn = "none"
    /\ fn' = "resolve"
    /\ ret' = resolve(args.path, args.scopes)
    /\ UNCHANGED <<args, pc, data, loaded, sheet, tables, ti, tableInfoMap, lastTableInfo, infos,
                   hideEntries, originallyHiddenRows>>

NextResolve == CallResolve

SpecResolve == InitResolve /\ [][NextResolve]_vars

\* a scope defines a path when _.get finds a value that is not undefined
Defines(scope, path) == ~isUndefined(get(scope, path))
SomeScopeDefines(scopes, path) == \E i \in DOMAIN scopes : Defines(scopes[i], path)
FirstDefiningIndex(scopes, path) ==
    CHOOSE i \in DOMAIN scopes :
        Defines(scopes[i], path) /\ \A j \in 1..(i - 1) : ~Defines(scopes[j], path)
FirstDefinedValue(scopes, path) == get(scopes[FirstDefiningIndex(scopes, path)], path)
Falsy(v) == v = Num(0) \/ v = Bool(FALSE) \/ v = EmptyString

\* C10 as stated: for a non-empty scope stack and a path that some scope
\* defines, resolve returns the value of the first scope that defines it.
C10_FirstDefinedWins ==
    (fn = "resolve" /\ args.scopes # <<>> /\ SomeScopeDefines(args.scopes, args.path))
        => ret = FirstDefinedValue(args.scopes, args.path)

\* C10 amended: resolve returns the value of the first scope that defines
\* the path, a null value being returned as the empty string; later scopes
\* are never consulted once a scope defines the path, also when the value
\* is 0, false or the empty string.
C10_FirstDefinedWinsNullAsEmpty ==
    (fn = "resolve" /\ args.scopes # <<>> /\ SomeScopeDefines(args.scopes, args.path))
        => ret = (IF FirstDefinedValue(args.scopes, args.path) = Null
                  THEN EmptyString
                  ELSE FirstDefinedValue(args.scopes, args.path))

\* C10 witness: a falsy value of the first scope shadowed a different value
\* of the second scope.
C10_Witness ==
    /\ fn = "resolve"
    /\ Len(args.scopes) >= 2
    /\ Defines(args.scopes[1], args.path)
    /\ Defines(args.scopes[2], args.path)
    /\ Falsy(get(args.scopes[1], args.path))
    /\ ~Falsy(get(args.scopes[2], args.path))
    /\ get(args.scopes[2], args.path) # Null
    /\ ret = get(args.scopes[1], args.path)

\* C11: for a path that no scope of the stack defines -- the empty stack
\* and a path with a missing or null intermediate segment included --
\* resolve returns the empty string, never undefined or null.
C11_UndefinedEverywhereIsEmpty ==
    (fn = "resolve" /\ ~SomeScopeDefines(args.scopes, args.path))
        => ret = EmptyString

\* C11 witness: a two-segment path whose first segment is null in the first
\* scope and missing in the second one resolved to the empty string.
C11_Witness ==
    /\ fn = "resolve"
    /\ args.path = Dotted(sCompany, sName)
    /\ Len(args.scopes) = 2
    /\ get(args.scopes[1], sCompany) = Null
    /\ isUndefined(get(args.scopes[2], sCompany))
    /\ ret = EmptyString

(***************************************************************************)
(* Specification of renderFormula: the arguments are drawn from bounded    *)
(* sets, then renderFormula is called once.                                *)
(***************************************************************************)
FormulaTypes == {sSUM, sAVERAGE, sCOUNT, sMIN, sMAX}

\* the elements the arrays of the root data are made of
FormulaElems ==
    << Obj(<<KV(sPrice, Num(10)), KV(sQty, Num(1))>>),
       Obj(<<KV(sPrice, Str(s20)), KV(sQty, Str(sAbc))>>),
       Obj(<<KV(sPrice, Num(30)), KV(sQty, Null)>>),
       Obj(<<KV(sPrice, Str(sAbc)), KV(sQty, Num(4))>>),
       Obj(<<KV(sPrice, NaN), KV(sQty, Num(-5))>>) >>

FormulaData ==
    {Obj(<<>>), Obj(<<KV(sItems, Str(sAbc))>>)}
        \cup {Obj(<<KV(sItems, Arr(q))>>) : q \in SeqsUpTo(FormulaElems, MaxLen)}

FormulaTableInfos ==
    {Null,
     TableRenderInfo(5, 10, sItems, <<KV(sPrice, Str(sColC))>>),
     TableRenderInfo(0, 0, sItems, <<KV(sPrice, Str(sColC))>>)}

InitFormula ==
    /\ WorkbookIdle
    /\ fn = "none"
    /\ ret = Undefined
    /\ \E type \in FormulaTypes \cup {sMEDIAN},
          column \in {Undefined, Str(sColD)},
          fieldName \in {Undefined, Str(sPrice), Str(sQty)},
          arrayPath \in {Undefined, Str(sItems)},
          tableInfo \in FormulaTableInfos,
          dat \in FormulaData :
          args = [formulaType |-> type, column |-> column, fieldName |-> fieldName,
                  arrayPath |-> arrayPath, tableInfo |-> tableInfo, data |-> dat]

CallRenderFormula ==
    /\ fn = "none"
    /\ fn' = "renderFormula"
    /\ ret' = renderFormula(args.formulaType, args.column, args.fieldName,
                            args.arrayPath, args.tableInfo, args.data)
    /\ UNCHANGED <<args, pc, data, loaded, sheet, tables, ti, tableInfoMap, lastTableInfo, infos,
                   hideEntries, originallyHiddenRows>>

NextFormula == CallRenderFormula

SpecFormula == InitFormula /\ [][NextFormula]_vars

\* a tableInfo renderFormula takes the table branch for
ValidTableInfo(info) == info # Null /\ info.startRow > 0 /\ info.endRow > 0
IsErrorString(v) == isString(v) /\ StartsWith(v.s, <<"#","E","R","R","O","R">>)
IsErrorColonString(v) == isString(v) /\ StartsWith(v.s, <<"#","E","R","R","O","R",":">>)

\* C7: renderFormula with a formula type outside SUM, AVERAGE, COUNT, MIN,
\* MAX returns a string that starts with #ERROR, with a valid tableInfo and
\* without one.
C7_UnknownTypeIsError ==
    (fn = "renderFormula" /\ args.formulaType \notin FormulaTypes)
        => IsErrorString(ret)

\* the elements of arr whose field is a number or a numeric-looking string
IsCoercible(v) ==
    \/ v.t = "number"
    \/ (isString(v) /\ trim(v.s) # <<>> /\ Number(v.s).t = "number")
CoercibleIndexes(arr, field) ==
    {i \in DOMAIN arr.items : IsCoercible(get(arr.items[i], field))}
CoercedValue(arr, field, i) ==
    LET v == get(arr.items[i], field) IN IF isString(v) THEN Number(v.s) ELSE v
RECURSIVE SumOver(_, _, _)
SumOver(arr, field, idx) ==
    IF idx = {} THEN Num(0)
    ELSE LET i == CHOOSE k \in idx : TRUE
         IN RatAdd(CoercedValue(arr, field, i), SumOver(arr, field, idx \ {i}))
\* what the data fallback is to return for one of the five types
ExpectedAggregate(type, arr, field) ==
    LET idx == CoercibleIndexes(arr, field)
        least == CHOOSE i \in idx : \A j \in idx :
                    ~RatLess(CoercedValue(arr, field, j), CoercedValue(arr, field, i))
        most == CHOOSE i \in idx : \A j \in idx :
                    ~RatLess(CoercedValue(arr, field, i), CoercedValue(arr, field, j))
    IN CASE type = sSUM -> SumOver(arr, field, idx)
         [] type = sAVERAGE -> RatDivInt(SumOver(arr, field, idx), Cardinality(idx))
         [] type = sCOUNT -> Num(Cardinality(idx))
         [] type = sMIN -> CoercedValue(arr, field, least)
         [] type = sMAX -> CoercedValue(arr, field, most)

\* C8: without table info and with both arrayPath and fieldName, renderFormula
\* returns the number 0 when the root data holds no non-empty array at
\* arrayPath or no element has a coercible field, and otherwise the plain
\* number that is the sum / mean / count / minimum / maximum of the coercible
\* field values, the other elements being ignored.
C8_FallbackAggregates ==
    (fn = "renderFormula" /\ ~ValidTableInfo(args.tableInfo)
        /\ Truthy(args.arrayPath) /\ Truthy(args.fieldName))
        => LET arr == get(args.data, args.arrayPath.s)
               empty == \/ ~isArray(arr)
                        \/ arr.items = <<>>
                        \/ CoercibleIndexes(arr, args.fieldName.s) = {}
           IN /\ empty => ret = Num(0)
              /\ (~empty /\ args.formulaType \in FormulaTypes)
                    => ret = ExpectedAggregate(args.formulaType, arr, args.fieldName.s)

\* C8 witness: a mean computed over an array that holds a number, a numeric
\* string and an element that is ignored.
C8_Witness ==
    /\ fn = "renderFormula"
    /\ args.tableInfo = Null
    /\ args.formulaType = sAVERAGE
    /\ args.arrayPath = Str(sItems)
    /\ args.fieldName = Str(sPrice)
    /\ get(args.data, sItems) = Arr(<<FormulaElems[1], FormulaElems[2]>>)
    /\ ret = Num(15)

\* C9: with a tableInfo whose rows are positive, renderFormula uses the
\* explicit column if given, else the fieldColumnMap entry of fieldName (a
\* `#ERROR:` string if there is none), returns a `#ERROR:` string if neither
\* a column nor a fieldName is given, and otherwise returns the formula
\* object TYPE(<col><startRow>:<col><endRow>).
C9_TableBranchColumn ==
    (fn = "renderFormula" /\ ValidTableInfo(args.tableInfo))
        => LET info == args.tableInfo
               range(col) == FormulaObj(args.formulaType \o <<"(">> \o col
                                  \o IntToString(info.startRow) \o <<":">> \o col
                                  \o IntToString(info.endRow) \o <<")">>)
           IN IF Truthy(args.column) THEN ret = range(args.column.s)
              ELSE IF Truthy(args.fieldName)
                   THEN IF MapHas(info.fieldColumnMap, args.fieldName.s)
                        THEN ret = range(MapGet(info.fieldColumnMap, args.fieldName.s).s)
                        ELSE IsErrorColonString(ret)
                   ELSE IsErrorColonString(ret)

\* C9 witness: the column of a field was looked up in the fieldColumnMap and
\* the range formula was returned.
C9_Witness ==
    /\ fn = "renderFormula"
    /\ ValidTableInfo(args.tableInfo)
    /\ args.column = Undefined
    /\ args.fieldName = Str(sPrice)
    /\ args.formulaType = sSUM
    /\ ret = FormulaObj(<<"S","U","M","(","C","5",":","C","1","0",")">>)

(***************************************************************************)
(* Specification of detectPlaceholder and renderCell: the cell value is    *)
(* drawn from a bounded set of values that are not strings and of texts    *)
(* -- formula placeholders of every type and target form, whole-cell       *)
(* placeholders, and texts that put two parts side by side -- then one of  *)
(* the two functions is called once.                                       *)
(***************************************************************************)
DetectFormulaTypes ==
    {<<"S","U","M">>,
    <<"s","u","m">>,
    <<"A","v","e","r","a","g","e">>,
    <<"C","O","U","N","T">>,
    <<"m","i","n">>,
    <<"M","A","X">>,
    <<"M","E","D","I","A","N">>}

DetectFormulaTargets ==
    {<<"C">>,
    <<"c">>,
    <<"A","B">>,
    <<"a","b","c">>,
    <<"q","t","y">>,
    <<"A","B","C","D">>,
    <<"n","a","m","e">>,
    <<"i","t","e","m","s",".","p","r","i","c","e">>,
    <<"a",".","b",".","c">>,
    <<"_","x">>,
    <<"x","1">>,
    <<"i","t","e","m","s",".">>,
    <<"A","1">>}

DetectFormulaTexts ==
    {sFormulaOpen \o <<" ">> \o type \o <<" ">> \o target \o sClose :
        type \in DetectFormulaTypes, target \in DetectFormulaTargets}

DetectWholeTexts ==
    {<<"h","e","l","l","o"," ","w","o","r","l","d">>,
    <<>>,
    <<"{","{","n","a","m","e","}","}">>,
    <<"{","{","c","o","m","p","a","n","y",".","n","a","m","e","}","}">>,
    <<"{","{"," ","n","a","m","e"," ","}","}">>,
    <<"{","{","#","t","a","b","l","e"," ","i","t","e","m","s","}","}">>,
    <<"{","{","#","t","a","b","l","e"," "," ","i","t","e","m","s"," ","}","}">>,
    <<"{","{","#","t","a","b","l","e","}","}">>,
    <<"{","{","#","t","a","b","l","e","i","t","e","m","s","}","}">>,
    <<"{","{","#","t","a","b","l","e"," ","t","a","g","s"," ","|"," ","j","o","i","n","(","\"",",","\"",")","}","}">>,
    <<"{","{","t","a","g","s"," ","|"," ","j","o","i","n","(","\"",","," ","\"",")","}","}">>,
    <<"{","{","t","a","g","s","|","j","o","i","n","(","'","-","'",")","}","}">>,
    <<"{","{","#","f","o","r","m","u","l","a"," ","S","U","M","}","}">>,
    <<"{","{","#","f","o","r","m","u","l","a"," "," ","c","o","u","n","t"," "," "," ","A","B","}","}">>,
    <<"{","{","#","F","O","R","M","U","L","A"," ","S","u","m"," ","C","}","}">>,
    <<"{","{","}","}">>,
    <<"{","{","#","f","o","r","m","u","l","a","S","U","M"," ","C","}","}">>}

DetectParts ==
    {<<"{","{","n","a","m","e","}","}">>,
    <<"{","{","#","t","a","b","l","e"," ","i","t","e","m","s","}","}">>,
    <<"{","{","#","f","o","r","m","u","l","a"," ","S","U","M"," ","C","}","}">>,
    <<"{","{","t","a","g","s"," ","|"," ","j","o","i","n","(","\"",","," ","\"",")","}","}">>,
    <<"T","o","t","a","l">>}

DetectSeparators == {<<>>,
                    <<" ">>,
                    <<":"," ">>}

DetectMixedTexts ==
    {a \o sep \o b : a \in DetectParts, sep \in DetectSeparators, b \in DetectParts}

DetectPadding == {<<>>, <<" ">>}

DetectTexts ==
    {lead \o text \o trail :
        lead \in DetectPadding, trail \in DetectPadding,
        text \in DetectFormulaTexts \cup DetectWholeTexts \cup DetectMixedTexts}

sTags == <<"t","a","g","s">>
sBo == <<"B","o">>

DetectNonStrings ==
    {Undefined, Null, Num(123), NaN, Bool(TRUE), Arr(<<Str(sOpen \o sName \o sClose)>>),
     Obj(<<KV(sName, Str(sOpen \o sName \o sClose))>>),
     RichText(<<[text |-> sOpen \o sName \o sClose, font |-> Null]>>)}

DetectCells == DetectNonStrings \cup {Str(text) : text \in DetectTexts}

DetectScopes ==
    << Obj(<<KV(sName, Str(sBo)), KV(sTags, Arr(<<Str(<<"a">>), Str(<<"b">>)>>))>>) >>

InitDetect ==
    /\ WorkbookIdle
    /\ fn = "none"
    /\ ret = Undefined
    /\ \E cellValue \in DetectCells :
          args = [cellValue |-> cellValue, scopes |-> DetectScopes]

CallDetectPlaceholder ==
    /\ fn = "none"
    /\ fn' = "detectPlaceholder"
    /\ ret' = detectPlaceholder(args.cellValue)
    /\ UNCHANGED <<args, pc, data, loaded, sheet, tables, ti, tableInfoMap, lastTableInfo, infos,
                   hideEntries, originallyHiddenRows>>

CallRenderCell ==
    /\ fn = "none"
    /\ fn' = "renderCell"
    /\ ret' = renderCell(args.cellValue, args.scopes, DefaultOptions)
    /\ UNCHANGED <<args, pc, data, loaded, sheet, tables, ti, tableInfoMap, lastTableInfo, infos,
                   hideEntries, originallyHiddenRows>>

NextDetect == CallDetectPlaceholder \/ CallRenderCell

SpecDetect == InitDetect /\ [][NextDetect]_vars

\* the kind of a detection result
KindOf(placeholder) == IF placeholder = Null THEN "none" ELSE placeholder.type

\* the kind of the first pattern, in the order table anchor, formula, join,
\* value, that matches a trimmed text
FirstMatchingKind(text) ==
    IF MatchTable(text) # NoMatch THEN "table"
    ELSE IF MatchFormula(text) # NoMatch THEN "formula"
    ELSE IF MatchJoin(text) # NoMatch THEN "join"
    ELSE IF MatchValue(text) # NoMatch THEN "value"
    ELSE "none"

\* C12: detectPlaceholder returns none for a value that is not a string, and
\* for a string the kind of the first pattern, in the order table anchor,
\* formula, join, value, that matches the trimmed text.
C12_FirstPatternWins ==
    fn = "detectPlaceholder"
        => IF isString(args.cellValue)
           THEN KindOf(ret) = FirstMatchingKind(trim(args.cellValue.s))
           ELSE ret = Null

\* C12 witness: a text that the table, the join and the value pattern all
\* match was classified as a table anchor.
C12_Witness ==
    /\ fn = "detectPlaceholder"
    /\ isString(args.cellValue)
    /\ MatchTable(trim(args.cellValue.s)) # NoMatch
    /\ MatchJoin(trim(args.cellValue.s)) # NoMatch
    /\ MatchValue(trim(args.cellValue.s)) # NoMatch
    /\ KindOf(ret) = "table"

\* a text holds a {{...}} span and text outside of it
HasPlaceholderAndOtherText(text) ==
    \E i \in DOMAIN text :
        /\ InlineCloseAt(text, i) # 0
        /\ (i > 1 \/ InlineCloseAt(text, i) + 1 < Len(text))

\* C13: a cell text that holds a placeholder and other text is detected as
\* no placeholder, and renderCell renders it by inline interpolation.
C13_MixedTextIsNoPlaceholder ==
    (isString(args.cellValue) /\ HasPlaceholderAndOtherText(trim(args.cellValue.s)))
        => /\ fn = "detectPlaceholder" => ret = Null
           /\ fn = "renderCell"
                => ret = Str(renderInterpolatedString(args.cellValue.s, args.scopes))

\* the largest position of a dot in a target, 0 when it has none
LastDotPosition(target) ==
    IF \E i \in DOMAIN target : target[i] = "."
    THEN CHOOSE i \in DOMAIN target :
            target[i] = "." /\ \A j \in (i + 1)..Len(target) : target[j] # "."
    ELSE 0

\* the type and target tokens of the formula placeholder of a cell
FormulaTokens(cellValue) == MatchFormula(trim(cellValue.s))

sCode == <<"c","o","d","e">>
sCodeLabel == <<"C","o","d","e",":"," ">>

\* strings that are decimal numbers, with the number each of them denotes
NumericTexts ==
    << [text |-> <<"1","0","0">>, value |-> Frac(100, 1)],
       [text |-> <<"0","0","1","2","3","4">>, value |-> Frac(1234, 1)],
       [text |-> <<"0","0","5","0","1">>, value |-> Frac(501, 1)],
       [text |-> <<"3",".","1","4">>, value |-> Frac(157, 50)],
       [text |-> <<" ","2","0"," ">>, value |-> Frac(20, 1)],
       [text |-> <<"-","5">>, value |-> Frac(-5, 1)],
       [text |-> <<"+","7">>, value |-> Frac(7, 1)],
       [text |-> <<"0">>, value |-> Frac(0, 1)],
       [text |-> <<"1",".","5","0">>, value |-> Frac(3, 2)] >>

\* strings of the form YYYY-MM-DD[THH:MM[:SS][.fff][Z or +/-HH:MM]], built
\* from their parts; the first two dates exist, the third one does not
ExistingDates == {<<"2","0","2","4","-","0","1","-","1","5">>,
                 <<"1","9","9","9","-","1","2","-","3","1">>}
DateHeads == ExistingDates \cup {<<"2","0","2","4","-","1","3","-","4","5">>}
DateTimes == {<<"T","1","0",":","3","0">>,
             <<"T","1","0",":","3","0",":","0","0">>,
             <<"T","2","3",":","5","9",":","5","9",".","1","2","3">>}
DateZones == {<<>>,
             <<"Z">>,
             <<"+","0","7",":","0","0">>}
StrictDateTexts(heads) ==
    heads \cup {head \o time \o zone :
                   head \in heads, time \in DateTimes, zone \in DateZones}

\* text put around a string of that form
DateExtras == {<<"-","r","e","p","o","r","t">>,
              <<" ","x">>,
              <<"T">>,
              <<"Z">>}
NearMissTexts ==
    {text \o extra : text \in StrictDateTexts(DateHeads), extra \in DateExtras}
        \cup {<<"x">> \o text : text \in StrictDateTexts(DateHeads)}

ValuePadding == {<<>>, <<" ">>}

ValueTexts ==
    {NumericTexts[i].text : i \in DOMAIN NumericTexts}
        \cup {lead \o text \o lead :
                 lead \in ValuePadding, text \in StrictDateTexts(DateHeads)}
        \cup NearMissTexts
        \cup {<<>>, <<" ", " ">>, sAbc, <<"1","2","a","b","c">>}

ValueValues ==
    {Str(text) : text \in ValueTexts}
        \cup {Undefined, Null, Num(42), NaN, Bool(TRUE), DateOf(<<"2","0","2","4","-","0","1","-","1","5">>),
              Obj(<<KV(<<"a">>, Num(1))>>), Arr(<<Num(1), Str(sAbc)>>),
              BigInt(10), Obj(<<KV(<<"a">>, BigInt(10))>>)}

ValueData(value, itemsValue) ==
    Obj(<<KV(sCompany, Str(sAcme))>>
          \o (IF isUndefined(value) THEN <<>> ELSE <<KV(sCode, value)>>)
          \o (IF isUndefined(itemsValue) THEN <<>> ELSE <<KV(sItems, itemsValue)>>))

\* the worksheet: the row of the value, then the table when there is one
ValueCells ==
    <<Str(sHi \o sOpen \o sCompany \o sClose), Whole(sCode),
      Str(sCodeLabel \o sOpen \o sCode \o sClose)>>
ValueSheet(withTable) ==
    LET rows == <<PlainRow(ValueCells, FALSE)>>
                    \o (IF withTable
                        THEN BlockRows(<<[path |-> sItems, footer |-> "none"]>>)
                        ELSE <<>>)
    IN [n \in DOMAIN rows |-> Row(rows[n].cells, rows[n].hidden, Undefined, n, 0, 0)]

InitValue ==
    /\ \E withTable \in BOOLEAN : loaded = ValueSheet(withTable)
    /\ \E value \in ValueValues, itemsValue \in {Undefined, ArrayOf(sItems, 1)} :
          data = ValueData(value, itemsValue)
    /\ \E autoParseNumbers \in BOOLEAN :
          args = [path |-> sCode, options |-> RenderOptions(autoParseNumbers)]
    /\ sheet = loaded
    /\ pc = "start"
    /\ tables = <<>>
    /\ ti = 0
    /\ tableInfoMap = <<>>
    /\ lastTableInfo = NoInfo
    /\ infos = <<>>
    /\ hideEntries = <<>>
    /\ originallyHiddenRows = {}
    /\ fn = "none"
    /\ ret = Undefined

CallRenderValue ==
    /\ fn = "none"
    /\ fn' = "renderValue"
    /\ ret' = renderValue(args.path, <<data>>, args.options)
    /\ UNCHANGED <<args, pc, data, loaded, sheet, tables, ti, tableInfoMap, lastTableInfo, infos,
                   hideEntries, originallyHiddenRows>>

NextValue == CallRenderValue \/ Next

SpecValue == InitValue /\ [][NextValue]_vars

\* the value the data holds under the path code
CodeValue == get(data, sCode)
\* the cell {{code}} of the worksheet, which no insertion moves
CodeCell == sheet[1].cells[2]
IsNumericText(value) ==
    isString(value) /\ \E i \in DOMAIN NumericTexts : NumericTexts[i].text = value.s
NumberOfText(value) ==
    NumericTexts[CHOOSE i \in DOMAIN NumericTexts : NumericTexts[i].text = value.s].value

\* what C15 says a numeric string is rendered to under the options
RenderedNumericText(value, options) ==
    IF options.autoParseNumbers THEN NumberOfText(value) ELSE value

\* C15: a string that is a number is rendered unchanged, leading zeros
\* kept, when autoParseNumbers is false or unset, and as the number it
\* denotes when autoParseNumbers is true -- by renderValue, and in the cell
\* {{code}} of a worksheet that processWorkbook has rendered.
C15_NumericStrings ==
    IsNumericText(CodeValue)
        => /\ fn = "renderValue" => ret = RenderedNumericText(CodeValue, args.options)
           /\ pc = "done" => CodeCell = RenderedNumericText(CodeValue, args.options)

\* C15 witness: with autoParseNumbers the string 001234 came out as the
\* number 1234, from renderValue and in the rendered cell.
C15_Witness ==
    /\ fn = "renderValue"
    /\ pc = "done"
    /\ args.options.autoParseNumbers
    /\ CodeValue = Str(<<"0","0","1","2","3","4">>)
    /\ ret = Num(1234)
    /\ CodeCell = Num(1234)

\* C16 as stated: renderValue turns a string into a date exactly when the
\* trimmed string has the strict form; any other string comes back unchanged.
C16_StrictFormIsDate ==
    (fn = "renderValue" /\ isString(CodeValue) /\ ~IsNumericText(CodeValue))
        => IF trim(CodeValue.s) \in StrictDateTexts(DateHeads)
           THEN ret = DateOf(trim(CodeValue.s))
           ELSE ret = CodeValue

\* C16 amended: renderValue turns a string into a date exactly when the
\* trimmed string has the strict form and names a date and time that exist;
\* any other string, one with text around the form included, comes back
\* unchanged.
C16_StrictFormOfExistingDateIsDate ==
    (fn = "renderValue" /\ isString(CodeValue) /\ ~IsNumericText(CodeValue))
        => IF trim(CodeValue.s) \in StrictDateTexts(ExistingDates)
           THEN ret = DateOf(trim(CodeValue.s))
           ELSE ret = CodeValue

\* C16 witness: a date with a time and a zone became a date value.
C16_Witness ==
    /\ fn = "renderValue"
    /\ CodeValue = Str(<<"2","0","2","4","-","0","1","-","1","5","T","1","0",":","3","0",":","0","0","Z">>)
    /\ ret = DateOf(<<"2","0","2","4","-","0","1","-","1","5","T","1","0",":","3","0",":","0","0","Z">>)

\* whether rendering a cell of the value row throws
RaisesAt(c) == isThrown(renderCell(loaded[1].cells[c], <<data>>, OptionsOf(args)))

\* C20: an exception raised while the value of one cell is computed is
\* caught there: processWorkbook ends normally, the cell holds an error
\* marker, and every other cell is rendered.
C20_ExceptionStaysInCell ==
    /\ pc # "threw"
    /\ pc = "done"
         => \A c \in DOMAIN loaded[1].cells :
               IF RaisesAt(c) THEN IsErrorString(sheet[1].cells[c])
               ELSE sheet[1].cells[c] = renderCell(loaded[1].cells[c], <<data>>,
                                                   OptionsOf(args))

(***************************************************************************)
(* Specification of processWorkbook over worksheets with hidden rows: a    *)
(* row of text, then up to MaxTables blocks, a block being an anchor row,  *)
(* its template row and a row of text; each row of text is hidden in the   *)
(* template or not.                                                        *)
(***************************************************************************)
sNote == <<"N","o","t","e"," ">>

NoteRow(hidden) == PlainRow(<<Str(sNote \o sOpen \o sCompany \o sClose)>>, hidden)

RECURSIVE NotedBlockRows(_)
NotedBlockRows(blocks) ==
    IF blocks = <<>> THEN <<>>
    ELSE <<PlainRow(<<AnchorCell(Head(blocks).path)>>, FALSE),
           PlainRow(TemplateCells(Head(blocks).path), FALSE),
           NoteRow(Head(blocks).hidden)>>
           \o NotedBlockRows(Tail(blocks))

HiddenLayouts ==
    [lead : BOOLEAN,
     blocks : UNION {[1..n -> [path : TablePaths, hidden : BOOLEAN]] : n \in 0..MaxTables}]

HiddenSheetOf(layout) ==
    LET rows == <<NoteRow(layout.lead)>> \o NotedBlockRows(layout.blocks)
    IN [n \in DOMAIN rows |-> Row(rows[n].cells, rows[n].hidden, Undefined, n, 0, 0)]

InitHidden ==
    /\ \E layout \in HiddenLayouts : loaded = HiddenSheetOf(layout)
    /\ \E itemsValue \in ValuesFor(sItems), svcValue \in ValuesFor(sSvc) :
          data = DataOf(itemsValue, svcValue)
    /\ sheet = loaded
    /\ pc = "start"
    /\ tables = <<>>
    /\ ti = 0
    /\ tableInfoMap = <<>>
    /\ lastTableInfo = NoInfo
    /\ infos = <<>>
    /\ hideEntries = <<>>
    /\ originallyHiddenRows = {}
    /\ NoCall

SpecHidden == InitHidden /\ [][Next]_vars

\* a row of the template that is the anchor row or the template row of a table
IsAnchorOrTemplateRow(n) ==
    \E k \in DOMAIN tables : n \in {tables[k].rowNumber, tables[k].rowNumber + 1}

\* where the content of the template's row n is after all insertions: the
\* rows the tables anchored above it inserted are added
OffsetCorrected(n) == n + Cardinality(InsertedAbove(n))

\* C19: after processWorkbook, every row that was hidden in the template and
\* is no anchor row and no template row is hidden at its offset-corrected
\* position, which is where the content of that row is.
C19_HiddenRowsStayHidden ==
    pc = "done" =>
        \A n \in DOMAIN loaded :
            (loaded[n].hidden /\ ~IsAnchorOrTemplateRow(n))
                => /\ OffsetCorrected(n) \in DOMAIN sheet
                   /\ sheet[OffsetCorrected(n)].orig = n
                   /\ sheet[OffsetCorrected(n)].hidden

\* C19 witness: a hidden row below two tables that both expanded is hidden
\* further down, and the row at its old position is visible.
C19_Witness ==
    /\ pc = "done"
    /\ Len(tables) = 2
    /\ Expands(1) /\ Expands(2)
    /\ loaded[Len(loaded)].hidden
    /\ OffsetCorrected(Len(loaded)) > Len(loaded) + 1
    /\ sheet[OffsetCorrected(Len(loaded))].hidden
    /\ ~sheet[Len(loaded)].hidden

(***************************************************************************)
(* Specification of renderJoin: the data holds an array of plain values    *)
(* under tags and an array of objects under items, each of up to           *)
(* MaxJoinLen elements; the path and the separator are drawn from small    *)
(* sets, then renderJoin is called once.                                   *)
(***************************************************************************)
sApple == <<"A","p","p","l","e">>
sCommaSpace == <<","," ">>
sMissing == <<"m","i","s","s","i","n","g">>

JoinPlainElems ==
    << Str(<<"a">>), Str(<<"b">>), EmptyString, Null, Undefined, Num(7),
       Obj(<<KV(sName, Str(sApple))>>) >>

JoinObjectElems ==
    << Obj(<<KV(sName, Str(sApple))>>), Obj(<<KV(sName, Str(<<"b">>))>>),
       Obj(<<KV(sName, Null)>>), Obj(<<KV(sName, EmptyString)>>), Obj(<<>>),
       Obj(<<KV(sName, Obj(<<>>))>>) >>

JoinData ==
    {Obj(<<KV(sTags, Arr(q)), KV(sName, Str(sAcme))>>) :
        q \in SeqsUpTo(JoinPlainElems, MaxJoinLen)}
      \cup {Obj(<<KV(sItems, Arr(q)), KV(sName, Str(sAcme))>>) :
                q \in SeqsUpTo(JoinObjectElems, MaxJoinLen)}

JoinPaths ==
    {sTags, sItems, Dotted(sItems, sName), Dotted(sTags, sName), sName,
     sMissing, Dotted(sMissing, sName)}

JoinSeparators == {sCommaSpace, <<"/">>}

InitJoin ==
    /\ WorkbookIdle
    /\ fn = "none"
    /\ ret = Undefined
    /\ \E dat \in JoinData, path \in JoinPaths, separator \in JoinSeparators :
          args = [path |-> path, separator |-> separator, scopes |-> <<dat>>]

CallRenderJoin ==
    /\ fn = "none"
    /\ fn' = "renderJoin"
    /\ ret' = renderJoin(args.path, args.separator, args.scopes)
    /\ UNCHANGED <<args, pc, data, loaded, sheet, tables, ti, tableInfoMap, lastTableInfo, infos,
                   hideEntries, originallyHiddenRows>>

NextJoin == CallRenderJoin

SpecJoin == InitJoin /\ [][NextJoin]_vars

\* the text of an element as the join sees it: nothing for null and undefined
JoinTextOf(v) == IF v \in {Null, Undefined} THEN <<>> ELSE ToStr(v)

\* the texts of a list that are kept, in order, joined by the separator
RECURSIVE JoinKept(_, _, _)
JoinKept(texts, dropped, separator) ==
    IF texts = <<>> THEN <<>>
    ELSE LET before == JoinKept(SubSeq(texts, 1, Len(texts) - 1), dropped, separator)
             last == texts[Len(texts)]
         IN IF last \in dropped THEN before
            ELSE IF \A i \in 1..(Len(texts) - 1) : texts[i] \in dropped
                 THEN last
                 ELSE before \o separator \o last

\* the array and the field a path stands for: the elements' field when the
\* path ends in a field and what is before it is a non-empty array, the
\* whole path otherwise
JoinPrefix(path) == SubSeq(path, 1, LastDotPosition(path) - 1)
JoinField(path) == SubSeq(path, LastDotPosition(path) + 1, Len(path))
JoinsByField(path, scope) ==
    /\ LastDotPosition(path) > 1
    /\ isArray(get(scope, JoinPrefix(path)))
    /\ get(scope, JoinPrefix(path)).items # <<>>

ExpectedJoin(path, separator, scope) ==
    IF JoinsByField(path, scope)
    THEN LET items == get(scope, JoinPrefix(path)).items
         IN JoinKept([i \in DOMAIN items |-> JoinTextOf(get(items[i], JoinField(path)))],
                     {<<>>}, separator)
    ELSE IF ~isArray(get(scope, path)) THEN <<>>
    ELSE LET items == get(scope, path).items
         IN JoinKept([i \in DOMAIN items |-> JoinTextOf(items[i])],
                     {<<>>, sObjectObject}, separator)

\* C17: renderJoin returns the texts of the elements, in array order and
\* joined by the separator, without the null, undefined and empty ones and,
\* when the whole path is the array, without those that are
\* [object Object]; it returns the empty string for a missing path, a value
\* that is no array and an empty array.
C17_JoinDropsEmptyElements ==
    fn = "renderJoin"
        => ret = Str(ExpectedJoin(args.path, args.separator, args.scopes[1]))

\* C17 witness: of the elements of the array tags -- an object, a and b --
\* the join over the whole path kept a and b.
C17_Witness ==
    /\ fn = "renderJoin"
    /\ args.path = sTags
    /\ args.separator = sCommaSpace
    /\ get(args.scopes[1], sTags) =
          Arr(<<Obj(<<KV(sName, Str(sApple))>>), Str(<<"a">>), Str(<<"b">>)>>)
    /\ ret = Str(<<"a", ",", " ", "b">>)

(***************************************************************************)
(* Specification of inline interpolation: a cell text is put together from *)
(* up to MaxSegments segments, a segment being a piece of literal text or  *)
(* a placeholder {{path}}; then renderInterpolatedString or renderCell is  *)
(* called once on the text.                                                *)
(***************************************************************************)
sId == <<"i","d">>
sOrd == <<"O","R","D","-","0","0","1">>
sJohn == <<"J","o","h","n">>
sRef == <<"r","e","f">>
sBracedId == sOpen \o sId \o sClose    \* a value that reads like a placeholder

InterpolationData ==
    Obj(<<KV(sName, Str(sJohn)), KV(sId, Str(sOrd)), KV(sQty, Num(5)),
          KV(sRef, Str(sBracedId)),
          KV(sCompany, Obj(<<KV(sName, Str(sAcme))>>)),
          KV(sTags, Arr(<<Str(<<"a">>), Str(<<"b">>)>>))>>)

\* a segment: its text in the cell and the text it stands for once rendered
Literal(text) == [placeholder |-> FALSE, text |-> text, rendered |-> text]
PathSegment(inner, rendered) ==
    [placeholder |-> TRUE, text |-> sOpen \o inner \o sClose, rendered |-> rendered]

Segments ==
    << Literal(<<"H","e","l","l","o"," ">>), Literal(<<","," ","o","r","d","e","r"," ">>),
       PathSegment(sName, sJohn),
       PathSegment(sId, sOrd),
       PathSegment(<<" ">> \o sQty \o <<" ">>, <<"5">>),
       PathSegment(sMissing, <<>>),
       PathSegment(sRef, sBracedId),
       PathSegment(Dotted(sCompany, sName), sAcme),
       PathSegment(sCompany, sObjectObject),
       PathSegment(sTags, <<"a", ",", "b">>) >>

RECURSIVE TextOf(_)
TextOf(segments) ==
    IF segments = <<>> THEN <<>> ELSE Head(segments).text \o TextOf(Tail(segments))
RECURSIVE RenderedOf(_)
RenderedOf(segments) ==
    IF segments = <<>> THEN <<>>
    ELSE Head(segments).rendered \o RenderedOf(Tail(segments))

InitInterpolate ==
    /\ WorkbookIdle
    /\ fn = "none"
    /\ ret = Undefined
    /\ \E segments \in SeqsUpTo(Segments, MaxSegments) :
          args = [segments |-> segments, template |-> TextOf(segments),
                  scopes |-> <<InterpolationData>>]

CallRenderInterpolatedString ==
    /\ fn = "none"
    /\ fn' = "renderInterpolatedString"
    /\ ret' = Str(renderInterpolatedString(args.template, args.scopes))
    /\ UNCHANGED <<args, pc, data, loaded, sheet, tables, ti, tableInfoMap, lastTableInfo, infos,
                   hideEntries, originallyHiddenRows>>

CallRenderCellText ==
    /\ fn = "none"
    /\ fn' = "renderCell"
    /\ ret' = renderCell(Str(args.template), args.scopes, DefaultOptions)
    /\ UNCHANGED <<args, pc, data, loaded, sheet, tables, ti, tableInfoMap, lastTableInfo, infos,
                   hideEntries, originallyHiddenRows>>

NextInterpolate == CallRenderInterpolatedString \/ CallRenderCellText

SpecInterpolate == InitInterpolate /\ [][NextInterpolate]_vars

\* a text that mixes literal text and at least one placeholder
MixesTextAndPlaceholders(segments) ==
    /\ \E i \in DOMAIN segments : segments[i].placeholder
    /\ \E i \in DOMAIN segments : ~segments[i].placeholder

\* C18: for a cell text that mixes literal text and {{path}} placeholders,
\* rendering gives a string: the text with every placeholder replaced by the
\* string form of the value of its path, nothing for a missing path, and
\* with the text outside the placeholders unchanged and in place.
C18_EverySpanReplaced ==
    (fn # "none" /\ MixesTextAndPlaceholders(args.segments))
        => ret = Str(RenderedOf(args.segments))

\* C18 witness: renderCell made `Hello John, order ORD-001` of
\* `Hello {{name}}, order {{id}}`.
C18_Witness ==
    /\ fn = "renderCell"
    /\ args.template = <<"H","e","l","l","o"," ","{","{","n","a","m","e","}","}",","," ","o","r","d","e","r"," ","{","{","i","d","}","}">>
    /\ ret = Str(<<"H","e","l","l","o"," ","J","o","h","n",","," ","o","r","d","e","r"," ","O","R","D","-","0","0","1">>)

(***************************************************************************)
(* Specification of processWorkbook over worksheets with formulas of every *)
(* kind of target: up to MaxTables blocks, a block being an anchor row,    *)
(* its template row and an optional row of formulas, and an optional row   *)
(* of formulas above the blocks.                                           *)
(***************************************************************************)
sTax == <<"t","a","x">>

\* processWorkbook is about to start on a template with the root data
StartsOn(template, dat) ==
    /\ loaded = template
    /\ data = dat
    /\ sheet = loaded
    /\ pc = "start"
    /\ tables = <<>>
    /\ ti = 0
    /\ tableInfoMap = <<>>
    /\ lastTableInfo = NoInfo
    /\ infos = <<>>
    /\ hideEntries = <<>>
    /\ originallyHiddenRows = {}
    /\ NoCall

\* a column letter, a field of the items template only, a field of no
\* template, a field of both templates by its path, a field of the items
\* template only by the path of the other table, and a text
TargetCells ==
    <<FormulaCell(sSUM, sColC), FormulaCell(sSUM, sName), FormulaCell(sCOUNT, sTotal),
      FormulaCell(sMAX, Dotted(sItems, sPrice)), FormulaCell(sMIN, Dotted(sSvc, sName)),
      FormulaCell(sSUM, Dotted(sItems, sTax)),
      Str(sHi \o sOpen \o sCompany \o sClose)>>

TargetRows(with) == IF with THEN <<PlainRow(TargetCells, FALSE)>> ELSE <<>>

RECURSIVE TargetBlockRows(_)
TargetBlockRows(blocks) ==
    IF blocks = <<>> THEN <<>>
    ELSE <<PlainRow(<<AnchorCell(Head(blocks).path)>>, FALSE),
           PlainRow(TemplateCells(Head(blocks).path), FALSE)>>
           \o TargetRows(Head(blocks).targets) \o TargetBlockRows(Tail(blocks))

TargetLayouts ==
    [lead : BOOLEAN,
     blocks : UNION {[1..n -> [path : TablePaths, targets : BOOLEAN]] : n \in 0..MaxTables}]

TargetSheetOf(layout) ==
    LET rows == TargetRows(layout.lead) \o TargetBlockRows(layout.blocks)
    IN [n \in DOMAIN rows |-> Row(rows[n].cells, rows[n].hidden, Undefined, n, 0, 0)]

InitTargets ==
    \E layout \in TargetLayouts, itemsValue \in ValuesFor(sItems),
       svcValue \in ValuesFor(sSvc) :
        StartsOn(TargetSheetOf(layout), DataOf(itemsValue, svcValue))

SpecTargets == InitTargets /\ [][Next]_vars

\* the anchors whose table expanded, and the one among them that is highest
\* on the sheet: it is the last the engine expands
ExpandedAnchors == {k \in DOMAIN tables : Expands(k)}
TopExpanded(among) == CHOOSE k \in among : \A j \in among : tables[j].rowNumber >= tables[k].rowNumber

\* the template row of an anchor names the field f in a cell {{f}}
TemplateNames(k, f) ==
    \E c \in DOMAIN loaded[tables[k].rowNumber + 1].cells :
        loaded[tables[k].rowNumber + 1].cells[c] = Whole(f)

\* the kinds of target of a formula placeholder of the template
TargetOf(o, c) == FormulaAt(o, c)[2]
IsColumnTarget(o, c) == Len(TargetOf(o, c)) <= 3 /\ IsColumnLetters(TargetOf(o, c))
IsBareFieldTarget(o, c) == ~IsColumnTarget(o, c) /\ ~IsDottedTarget(TargetOf(o, c))
TargetArrayPath(o, c) == SubSeq(TargetOf(o, c), 1, LastDotPosition(TargetOf(o, c)) - 1)
TargetField(o, c) ==
    SubSeq(TargetOf(o, c), LastDotPosition(TargetOf(o, c)) + 1, Len(TargetOf(o, c)))
AnchorsOfTarget(o, c) ==
    {k \in ExpandedAnchors : tables[k].path = TargetArrayPath(o, c)}

\* a column letter or a bare field name, and no table expanded on the sheet
NoTableForTarget(o, c) == ~IsDottedTarget(TargetOf(o, c)) /\ ExpandedAnchors = {}
\* a field name that the template row of the table it refers to does not hold
FieldNotInTable(o, c) ==
    \/ /\ IsBareFieldTarget(o, c)
       /\ ExpandedAnchors # {}
       /\ ~TemplateNames(TopExpanded(ExpandedAnchors), TargetOf(o, c))
    \/ /\ IsDottedTarget(TargetOf(o, c))
       /\ AnchorsOfTarget(o, c) # {}
       /\ ~TemplateNames(TopExpanded(AnchorsOfTarget(o, c)), TargetField(o, c))
\* an array.field target, and no table of that path expanded
TableNotExpanded(o, c) == IsDottedTarget(TargetOf(o, c)) /\ AnchorsOfTarget(o, c) = {}

IsFilledArray(v) == isArray(v) /\ v.items # <<>>

\* the cells that hold no formula placeholder are rendered from the root data
OtherCellsProcessed ==
    \A o \in DOMAIN loaded : \A c \in DOMAIN loaded[o].cells :
        (FormulaAt(o, c) = NoMatch /\ ~IsAnchorOrTemplateRow(o))
            => FinalCellsFrom(o, c) = {renderCell(loaded[o].cells[c], <<data>>, DefaultOptions)}

\* C21 as stated: after the final pass a whole-cell formula with a column or
\* bare field target on a sheet where no table expanded, with a field name
\* its table does not hold, or with an array.field target whose table did not
\* expand, has left a string that starts with #ERROR: in its cell, and the
\* other cells are rendered.
C21_UnresolvedTargetIsError ==
    pc = "done" =>
        /\ OtherCellsProcessed
        /\ \A o \in DOMAIN loaded : \A c \in DOMAIN loaded[o].cells :
              (/\ FormulaAt(o, c) # NoMatch
               /\ \/ NoTableForTarget(o, c)
                  \/ FieldNotInTable(o, c)
                  \/ TableNotExpanded(o, c))
                => \A v \in FinalCellsFrom(o, c) : IsErrorColonString(v)

\* C21 amended: the same for the first two kinds of target; a formula with
\* an array.field target whose table did not expand is computed from the
\* root data and leaves a number in its cell, 0 when the data holds no
\* non-empty array under the path.
C21_ErrorOrDataFallback ==
    pc = "done" =>
        /\ OtherCellsProcessed
        /\ \A o \in DOMAIN loaded : \A c \in DOMAIN loaded[o].cells :
              FormulaAt(o, c) # NoMatch =>
                /\ (NoTableForTarget(o, c) \/ FieldNotInTable(o, c))
                      => \A v \in FinalCellsFrom(o, c) : IsErrorColonString(v)
                /\ TableNotExpanded(o, c)
                      => \A v \in FinalCellsFrom(o, c) :
                            /\ isNumber(v)
                            /\ ~IsFilledArray(get(data, TargetArrayPath(o, c))) => v = Num(0)

\* C21 witness: below a table of svc that expanded, the formula over the
\* field name, which its template row does not hold, left an error string,
\* and the text next to it is rendered.
C21_Witness ==
    /\ pc = "done"
    /\ Len(tables) = 1 /\ Expands(1) /\ tables[1].path = sSvc
    /\ Len(loaded) = 3
    /\ FinalCellsFrom(3, 2) = {ErrFieldNotFound(sName)}
    /\ FinalCellsFrom(3, 7) = {Str(sHi \o sAcme)}

(***************************************************************************)
(* Specification of processWorkbook over worksheets whose anchor rows hold *)
(* one anchor, the same anchor in two cells, or the anchors of two         *)
(* different paths: up to MaxTables blocks, a block being such an anchor   *)
(* row and the template row below it.                                      *)
(***************************************************************************)
AnchorKinds == {"one", "twice", "both"}
OtherPath(path) == IF path = sItems THEN sSvc ELSE sItems

AnchorCells(path, kind) ==
    IF kind = "one" THEN <<AnchorCell(path)>>
    ELSE IF kind = "twice" THEN <<AnchorCell(path), Null, AnchorCell(path)>>
    ELSE <<AnchorCell(path), AnchorCell(OtherPath(path))>>

RECURSIVE AnchorBlockRows(_)
AnchorBlockRows(blocks) ==
    IF blocks = <<>> THEN <<>>
    ELSE <<PlainRow(AnchorCells(Head(blocks).path, Head(blocks).anchors), FALSE),
           PlainRow(TemplateCells(Head(blocks).path), FALSE)>>
           \o AnchorBlockRows(Tail(blocks))

AnchorLayouts ==
    UNION {[1..n -> [path : TablePaths, anchors : AnchorKinds]] : n \in 0..MaxTables}

AnchorSheetOf(blocks) ==
    LET rows == AnchorBlockRows(blocks)
    IN [n \in DOMAIN rows |-> Row(rows[n].cells, rows[n].hidden, Undefined, n, 0, 0)]

InitAnchors ==
    \E blocks \in AnchorLayouts, itemsValue \in ValuesFor(sItems),
       svcValue \in ValuesFor(sSvc) :
        StartsOn(AnchorSheetOf(blocks), DataOf(itemsValue, svcValue))

SpecAnchors == InitAnchors /\ [][Next]_vars

\* the path of the anchor a cell of the template holds, <<>> when it holds none
AnchorPathAt(o, c) ==
    IF /\ o \in DOMAIN loaded /\ c \in DOMAIN loaded[o].cells
       /\ isString(loaded[o].cells[c])
       /\ MatchTable(trim(loaded[o].cells[c].s)) # NoMatch
    THEN MatchTable(trim(loaded[o].cells[c].s))[1]
    ELSE <<>>
\* the (row, path) pairs of the anchor cells of the template
AnchorPairs ==
    UNION {{<<o, AnchorPathAt(o, c)>> : c \in DOMAIN loaded[o].cells} \ {<<o, <<>>>>} :
              o \in DOMAIN loaded}

\* the number of rows the table k is to insert
RowsOfTable(k) == IF Expands(k) THEN Len(ArrayOfTable(k).items) ELSE 0
\* the row where the content of the template's row o is now
PositionOf(o) == CHOOSE n \in DOMAIN sheet : sheet[n].orig = o
\* the anchors of a single path on their row
AloneOnRow(k) == \A j \in DOMAIN tables :
                    tables[j].rowNumber = tables[k].rowNumber => j = k

\* C22: the scan records exactly one table for every (row, path) pair that
\* an anchor cell of the sheet holds, so one for several cells of the same
\* path on a row and one for each row that holds the path; and every such
\* table has inserted as many rows as its array has elements, in element
\* order, directly above where its anchor row now is.
C22_OneTablePerRowAndPath ==
    /\ pc # "start" =>
          /\ {<<tables[k].rowNumber, tables[k].path>> : k \in DOMAIN tables} = AnchorPairs
          /\ Len(tables) = Cardinality(AnchorPairs)
    /\ AllExpanded =>
          \A k \in DOMAIN tables :
              AloneOnRow(k) =>
                 LET anchor == tables[k].rowNumber
                     N == RowsOfTable(k)
                 IN /\ DataRowsOf(anchor) = (PositionOf(anchor) - N)..(PositionOf(anchor) - 1)
                    /\ \A i \in 0..(N - 1) : sheet[PositionOf(anchor) - N + i].elem = i

\* C22 witness: the path items is anchored in two cells of row 1 and again
\* on row 3; two tables are recorded and both have expanded.
C22_Witness ==
    /\ pc = "done"
    /\ AnchorPathAt(1, 1) = sItems /\ AnchorPathAt(1, 3) = sItems
    /\ Len(loaded) = 4 /\ AnchorPathAt(3, 1) = sItems
    /\ Len(tables) = 2
    /\ Expands(1) /\ Expands(2)
    /\ Len(sheet) = 4 + 2 * Len(ArrayOfTable(1).items)

\* the cells a template row gives for an element: the element's field for
\* a cell {{f}}, nothing for an empty cell
ClonedCells(templateRow, element) ==
    [c \in DOMAIN templateRow.cells |->
        IF templateRow.cells[c] = Null THEN Null
        ELSE get(element, MatchValue(templateRow.cells[c].s)[1])]

\* C29: when all anchors are expanded, the rows inserted at a row of the
\* template are as many as the arrays of the anchors recorded on that row
\* have elements, and for every recorded anchor and every element of its
\* array there is an inserted row cloned for that element from the row that
\* was below the anchor in the template.
C29_EveryAnchorExpandedFromItsTemplateRow ==
    AllExpanded =>
        /\ \A pair \in AnchorPairs :
              \E k \in DOMAIN tables : pair = <<tables[k].rowNumber, tables[k].path>>
        /\ \A k \in DOMAIN tables :
              /\ Cardinality(DataRowsOf(tables[k].rowNumber)) =
                    RowsOfTable(k)
                      + (IF AloneOnRow(k) THEN 0
                         ELSE RowsOfTable(CHOOSE j \in DOMAIN tables :
                                             j # k /\ tables[j].rowNumber = tables[k].rowNumber))
              /\ \A i \in 1..RowsOfTable(k) :
                    \E n \in DataRowsOf(tables[k].rowNumber) :
                        sheet[n].cells = ClonedCells(loaded[tables[k].rowNumber + 1],
                                                     ArrayOfTable(k).items[i])

(***************************************************************************)
(* Properties of the hide entries.                                         *)
(***************************************************************************)
\* the rows the tables of a set of anchors insert
RECURSIVE RowsInsertedBy(_)
RowsInsertedBy(anchors) ==
    IF anchors = {} THEN 0
    ELSE LET k == CHOOSE j \in anchors : TRUE
         IN RowsOfTable(k) + RowsInsertedBy(anchors \ {k})

\* the other entries whose anchor is above the anchor of entry i and that
\* are before, respectively after, entry i in processing order
AboveAndBefore(i) ==
    {j \in DOMAIN tables : j < i /\ tables[j].rowNumber < tables[i].rowNumber}
AboveAndAfter(i) ==
    {j \in DOMAIN tables : j > i /\ tables[j].rowNumber < tables[i].rowNumber}

\* the rows to hide of entry i, moved down by an offset, are the anchor row
\* and the template row of its table, hidden, cleared and of height zero
HiddenWithOffset(i, offset) ==
    \A k \in 1..2 :
        LET n == hideEntries[i].rows[k] + offset
        IN /\ n \in DOMAIN sheet
           /\ sheet[n].orig = tables[i].rowNumber + k - 1
           /\ HiddenAndCleared(sheet[n]) /\ sheet[n].height = Num(0)

\* C23 as stated: when the rows of the hide entries have been hidden, the
\* offset that was added to the rows of every entry is the sum of the rows
\* inserted by the other entries whose anchor is above it and that come
\* before it in processing order.
C23_OffsetSumsEarlierEntriesAbove ==
    pc = "unhide" =>
        \A i \in DOMAIN hideEntries : HiddenWithOffset(i, RowsInsertedBy(AboveAndBefore(i)))

\* C23 amended: the offset is the sum of the rows inserted by the other
\* entries whose anchor is above it and that come after it in processing
\* order.
C23_OffsetSumsLaterEntriesAbove ==
    pc = "unhide" =>
        \A i \in DOMAIN hideEntries : HiddenWithOffset(i, RowsInsertedBy(AboveAndAfter(i)))

\* C23 witness: the rows of the lower of two tables were hidden further
\* down by the MaxLen rows that the upper table inserted after it.
C23_Witness ==
    /\ pc = "unhide"
    /\ Len(hideEntries) = 2
    /\ Expands(1)
    /\ RowsInsertedBy(AboveAndAfter(1)) = MaxLen
    /\ HiddenWithOffset(1, MaxLen)

(***************************************************************************)
(* Properties of the order of expansion.                                   *)
(***************************************************************************)
\* the anchors that are not expanded yet
Unprocessed == {j \in DOMAIN tables : j >= ti}
\* the anchor j is above every anchor expanded so far
AboveTheExpanded(j) ==
    \A k \in DOMAIN tables : k < ti => tables[j].rowNumber < tables[k].rowNumber
\* the template's row o is where it was, with the cells it had
InPlace(o) == o \in DOMAIN sheet /\ sheet[o].orig = o /\ sheet[o].cells = loaded[o].cells

\* C24: the anchors are expanded in descending order of their rows, and as
\* long as anchors are left to expand, every such anchor that is above the
\* ones expanded so far is on the row the scan recorded for it, its
\* template row on the row below.
C24_UnprocessedAnchorsStayInPlace ==
    pc = "expand" =>
        /\ \A j, k \in DOMAIN tables :
              j < k => tables[j].rowNumber >= tables[k].rowNumber
        /\ \A j \in Unprocessed :
              AboveTheExpanded(j)
                 => InPlace(tables[j].rowNumber) /\ InPlace(tables[j].rowNumber + 1)

\* C24 witness: the lower of two tables has inserted MaxLen rows, and the
\* upper one, still to expand, is on its row.
C24_Witness ==
    /\ pc = "expand"
    /\ ti = 2 /\ Len(tables) = 2
    /\ tables[2].rowNumber < tables[1].rowNumber
    /\ Cardinality(DataRowsOf(tables[1].rowNumber)) = MaxLen
    /\ InPlace(tables[2].rowNumber) /\ InPlace(tables[2].rowNumber + 1)

(***************************************************************************)
(* Specification of handleRichText: a text is put together from up to      *)
(* MaxRichSegments segments, literal text or a placeholder {{path}}, and    *)
(* cut into up to MaxRuns styled runs at any positions; then               *)
(* handleRichText or renderCell is called once on the rich text.           *)
(***************************************************************************)
RichSegments ==
    <<Literal(<<"n", "o", " ">>), PathSegment(sId, sOrd), PathSegment(sQty, <<"5">>)>>

\* the ways to cut a text of the given length into at most MaxRuns runs:
\* the sets of positions after which a run ends
CutsOf(length) ==
    {cuts \in SUBSET (1..(length - 1)) : Cardinality(cuts) < MaxRuns}

\* the runs of a text cut after the positions in cuts, the first one
\* starting at position from; run number k carries the font k
RECURSIVE RunsFrom(_, _, _, _)
RunsFrom(text, cuts, from, k) ==
    IF from > Len(text) THEN <<>>
    ELSE LET ends == {c \in cuts : c >= from} \cup {Len(text)}
             to == Least(ends)
         IN <<[text |-> SubSeq(text, from, to), font |-> k]>>
               \o RunsFrom(text, cuts, to + 1, k + 1)

InitRichText ==
    /\ WorkbookIdle
    /\ fn = "none"
    /\ ret = Undefined
    /\ \E segments \in SeqsUpTo(RichSegments, MaxRichSegments) :
          \E cuts \in CutsOf(Len(TextOf(segments))) :
              args = [segments |-> segments,
                      cellValue |-> RichText(RunsFrom(TextOf(segments), cuts, 1, 1)),
                      scopes |-> <<InterpolationData>>]

CallHandleRichText ==
    /\ fn = "none"
    /\ fn' = "handleRichText"
    /\ ret' = handleRichText(args.cellValue, args.scopes)
    /\ UNCHANGED <<args, pc, data, loaded, sheet, tables, ti, tableInfoMap, lastTableInfo, infos,
                   hideEntries, originallyHiddenRows>>

CallRenderCellRichText ==
    /\ fn = "none"
    /\ fn' = "renderCell"
    /\ ret' = renderCell(args.cellValue, args.scopes, DefaultOptions)
    /\ UNCHANGED <<args, pc, data, loaded, sheet, tables, ti, tableInfoMap, lastTableInfo, infos,
                   hideEntries, originallyHiddenRows>>

NextRichText == CallHandleRichText \/ CallRenderCellRichText

SpecRichText == InitRichText /\ [][NextRichText]_vars

\* the texts of a list of runs, one after the other
RECURSIVE RunsText(_)
RunsText(runs) == IF runs = <<>> THEN <<>> ELSE Head(runs).text \o RunsText(Tail(runs))

\* the positions of the text that the segment k, respectively the run k, takes
SegmentSpan(segments, k) ==
    (Len(TextOf(SubSeq(segments, 1, k - 1))) + 1)..Len(TextOf(SubSeq(segments, 1, k)))
RunSpan(runs, k) ==
    (Len(RunsText(SubSeq(runs, 1, k - 1))) + 1)..Len(RunsText(SubSeq(runs, 1, k)))

\* the run k holds no character of a placeholder
OutsidePlaceholders(segments, runs, k) ==
    \A j \in DOMAIN segments :
        segments[j].placeholder => RunSpan(runs, k) \cap SegmentSpan(segments, j) = {}

\* no run ends between the two braces of a delimiter: every {{ and every }}
\* lies whole in one run
DelimitersWhole(segments, runs) ==
    \A j \in DOMAIN segments : \A k \in DOMAIN runs :
        segments[j].placeholder =>
            LET first == Len(TextOf(SubSeq(segments, 1, j - 1))) + 1
                end == Len(TextOf(SubSeq(segments, 1, j)))
                last == Len(RunsText(SubSeq(runs, 1, k)))
            IN last # first /\ last + 1 # end

\* C25: whatever the runs a text is cut into, no delimiter being cut in
\* two, the texts of the runs that handleRichText returns, put together,
\* are the text with every placeholder replaced by its value, and every run
\* that holds no part of a placeholder is among them unchanged, font
\* included.
C25_SplitPlaceholdersReassembled ==
    (fn # "none" /\ DelimitersWhole(args.segments, args.cellValue.richText)) =>
        /\ ret.t = "richText"
        /\ RunsText(ret.richText) = RenderedOf(args.segments)
        /\ \A k \in DOMAIN args.cellValue.richText :
              OutsidePlaceholders(args.segments, args.cellValue.richText, k)
                 => \E j \in DOMAIN ret.richText :
                       ret.richText[j] = args.cellValue.richText[k]

(***************************************************************************)
(* Specification of processWorkbook over one table whose template row      *)
(* names a field that elements and root data may both hold, a field of the *)
(* root data that an element may hold, and a field of neither.             *)
(***************************************************************************)
sOwn == <<"O","w","n">>
ScopeFields == <<sName, sCompany, sTax>>

ScopeSheet ==
    LET rows == <<PlainRow(<<AnchorCell(sItems)>>, FALSE),
                  PlainRow([c \in DOMAIN ScopeFields |-> Whole(ScopeFields[c])], FALSE)>>
    IN [n \in DOMAIN rows |-> Row(rows[n].cells, rows[n].hidden, Undefined, n, 0, 0)]

\* the elements: with both fields, with the name only, with neither field,
\* with a name that is null, and an element that is a string
ScopeElements ==
    <<Obj(<<KV(sName, Str(<<"A">>)), KV(sCompany, Str(sOwn))>>),
      Obj(<<KV(sName, Str(<<"B">>))>>),
      Obj(<<KV(sQty, Num(1))>>),
      Obj(<<KV(sName, Null)>>),
      Str(sAbc)>>

\* the root data holds the company, and the name or not
ScopeData(items, named) ==
    Obj(<<KV(sCompany, Str(sAcme)), KV(sItems, Arr(items))>>
          \o (IF named THEN <<KV(sName, Str(sRoot))>> ELSE <<>>))

InitScopes ==
    \E items \in SeqsUpTo(ScopeElements, MaxLen), named \in BOOLEAN :
        StartsOn(ScopeSheet, ScopeData(items, named))

SpecScopes == InitScopes /\ [][Next]_vars

\* the field f that the value v itself holds, undefined if it holds none
OwnField(v, f) ==
    IF v.t = "object" /\ \E i \in DOMAIN v.fields : v.fields[i].k = f
    THEN v.fields[CHOOSE i \in DOMAIN v.fields : v.fields[i].k = f].v
    ELSE Undefined

\* what a placeholder {{f}} stands for in the row of an element: the field
\* of the element if it is defined there, else the field of the root data,
\* and the empty string where the value found is null or there is none
ScopedValue(element, root, f) ==
    LET found == IF ~isUndefined(OwnField(element, f)) THEN OwnField(element, f)
                 ELSE OwnField(root, f)
    IN IF isNil(found) THEN EmptyString ELSE found

\* C26: in the row cloned for element i every placeholder {{f}} of the
\* template row has the value of the field f of element i where it is
\* defined on the element, else the value of the field f of the root data,
\* else the empty string.
C26_ElementShadowsRoot ==
    \A n \in DOMAIN sheet : \A c \in DOMAIN ScopeFields :
        sheet[n].by # 0 =>
            sheet[n].cells[c]
                = ScopedValue(OwnField(data, sItems).items[sheet[n].elem + 1], data,
                              ScopeFields[c])

\* C26 witness: the workbook is done; one row shows the company of its own
\* element, another row the name of the root data for an element without a
\* name.
C26_Witness ==
    /\ pc = "done"
    /\ \E n \in DOMAIN sheet :
          /\ sheet[n].by # 0
          /\ sheet[n].cells[2] = Str(sOwn)
    /\ \E n \in DOMAIN sheet :
          /\ sheet[n].by # 0
          /\ isUndefined(OwnField(OwnField(data, sItems).items[sheet[n].elem + 1], sName))
          /\ sheet[n].cells[1] = Str(sRoot)
          /\ sheet[n].cells[2] = Str(sAcme)

(***************************************************************************)
(* Specification of processWorkbook over worksheets with any hidden flags: *)
(* a row of text, then up to MaxTables blocks, a block being an anchor     *)
(* row, its template row and a row of text; any set of rows, anchor rows   *)
(* and template rows included, is hidden in the template.                  *)
(***************************************************************************)
RECURSIVE FlaggedBlockRows(_)
FlaggedBlockRows(paths) ==
    IF paths = <<>> THEN <<>>
    ELSE <<PlainRow(<<AnchorCell(Head(paths))>>, FALSE),
           PlainRow(TemplateCells(Head(paths)), FALSE),
           NoteRow(FALSE)>>
           \o FlaggedBlockRows(Tail(paths))

FlaggedSheetOf(paths, hidden) ==
    LET rows == <<NoteRow(FALSE)>> \o FlaggedBlockRows(paths)
    IN [n \in DOMAIN rows |-> Row(rows[n].cells, n \in hidden, Undefined, n, 0, 0)]

InitFlags ==
    \E paths \in UNION {[1..n -> TablePaths] : n \in 0..MaxTables} :
        \E hidden \in SUBSET (1..(1 + 3 * Len(paths))),
           itemsValue \in ValuesFor(sItems), svcValue \in ValuesFor(sSvc) :
            StartsOn(FlaggedSheetOf(paths, hidden), DataOf(itemsValue, svcValue))

SpecFlags == InitFlags /\ [][Next]_vars

\* the rows of the template that are to be hidden in the end: the anchor
\* rows, the template rows, and the other rows that the template hides
ToBeHidden ==
    {o \in DOMAIN loaded : IsAnchorOrTemplateRow(o) \/ loaded[o].hidden}

\* where the content of the template's row o is in the end: below the rows
\* inserted for the anchors on that row or above it
FinalPosition(o) ==
    o + Cardinality({n \in DOMAIN sheet : sheet[n].by # 0 /\ sheet[n].by <= o})

\* C27: after processWorkbook the hidden rows are the rows where the anchor
\* rows, the template rows and the other rows hidden in the template are
\* now, whatever rows the template hides: every such row is hidden where its
\* content is, and no other row, in particular no row of table data, is
\* hidden.
C27_HiddenExactlyWhereDue ==
    pc = "done" =>
        /\ \A o \in ToBeHidden :
              /\ FinalPosition(o) \in DOMAIN sheet
              /\ sheet[FinalPosition(o)].orig = o
        /\ {n \in DOMAIN sheet : sheet[n].hidden} = {FinalPosition(o) : o \in ToBeHidden}
        /\ \A n \in DOMAIN sheet : sheet[n].hidden => sheet[n].by = 0

\* C27 witness: the template hides an anchor row, a template row and the
\* row of text below a table that expands; in the end rows of table data are
\* where hidden rows were and are visible, a row of text that the template
\* shows is visible, and the hidden row of text is hidden further down.
C27_Witness ==
    /\ pc = "done"
    /\ Len(tables) = 2
    /\ Expands(1) /\ Expands(2)
    /\ loaded[2].hidden /\ loaded[3].hidden /\ loaded[4].hidden
    /\ ~loaded[1].hidden
    /\ sheet[2].by # 0 /\ ~sheet[2].hidden
    /\ sheet[3].by # 0 /\ ~sheet[3].hidden
    /\ ~sheet[1].hidden
    /\ FinalPosition(4) > 4
    /\ sheet[FinalPosition(4)].hidden

(***************************************************************************)
(* Specification of processWorkbook over one table whose elements hold     *)
(* strings that look like placeholders.                                    *)
(***************************************************************************)
QuotingSheet ==
    LET rows == <<PlainRow(<<AnchorCell(sItems)>>, FALSE),
                  PlainRow(<<Whole(sName), Whole(sQty)>>, FALSE)>>
    IN [n \in DOMAIN rows |-> Row(rows[n].cells, rows[n].hidden, Undefined, n, 0, 0)]

\* the names of the elements: a plain text, a placeholder of a path of the
\* root data alone and within a text, a formula and an anchor
QuotingNames ==
    <<Str(<<"A">>), Whole(sCompany), Str(sHi \o sOpen \o sCompany \o sClose),
      FormulaCell(sSUM, sQty), AnchorCell(sItems)>>

QuotingElements ==
    [i \in DOMAIN QuotingNames |-> Obj(<<KV(sName, QuotingNames[i]), KV(sQty, Num(i))>>)]

InitQuoting ==
    \E items \in SeqsUpTo(QuotingElements, MaxLen) :
        StartsOn(QuotingSheet, Obj(<<KV(sCompany, Str(sAcme)), KV(sItems, Arr(items))>>))

SpecQuoting == InitQuoting /\ [][Next]_vars

\* C28: the final pass leaves every cell of every row of table data as the
\* expansion of the table wrote it, whatever text the element holds.
C28_DataRowsNotRenderedAgain ==
    [][pc = "final" =>
          \A n \in DOMAIN sheet : sheet[n].by # 0 => sheet'[n].cells = sheet[n].cells]_vars

(***************************************************************************)
(* Specification of the two computations of a formula from the data: the   *)
(* formula type, the array path, the field name and the root data are      *)
(* drawn from bounded sets, then calculateFormulaValue is called with the  *)
(* scope stack [data], or renderFormula with no column and no table info.  *)
(***************************************************************************)
AgreeArrayPaths == {<<>>, sItems, sCompany, Dotted(sItems, sPrice)}
AgreeFieldNames == {<<>>, sPrice, sQty, sName}
AgreeData ==
    {Null} \cup {Obj(<<KV(sCompany, Str(sAcme))>> \o d.fields) : d \in FormulaData}

InitAgree ==
    /\ WorkbookIdle
    /\ fn = "none"
    /\ ret = Undefined
    /\ \E type \in FormulaTypes, arrayPath \in AgreeArrayPaths,
          fieldName \in AgreeFieldNames, dat \in AgreeData :
          args = [formulaType |-> type, arrayPath |-> arrayPath,
                  fieldName |-> fieldName, data |-> dat]

CallCalculateFormulaValue ==
    /\ fn = "none"
    /\ fn' = "calculateFormulaValue"
    /\ ret' = Str(calculateFormulaValue(args.formulaType, args.arrayPath, args.fieldName,
                                        <<args.data>>))
    /\ UNCHANGED <<args, pc, data, loaded, sheet, tables, ti, tableInfoMap, lastTableInfo, infos,
                   hideEntries, originallyHiddenRows>>

CallRenderFormulaFromData ==
    /\ fn = "none"
    /\ fn' = "renderFormula"
    /\ ret' = renderFormula(args.formulaType, Undefined, Str(args.fieldName),
                            Str(args.arrayPath), Null, args.data)
    /\ UNCHANGED <<args, pc, data, loaded, sheet, tables, ti, tableInfoMap, lastTableInfo, infos,
                   hideEntries, originallyHiddenRows>>

NextAgree == CallCalculateFormulaValue \/ CallRenderFormulaFromData

SpecAgree == InitAgree /\ [][NextAgree]_vars

\* what renderFormula returns for the arguments of the call, with no column
\* and no table info
FromData ==
    renderFormula(args.formulaType, Undefined, Str(args.fieldName), Str(args.arrayPath),
                  Null, args.data)

\* C30: for every formula type among SUM, AVERAGE, COUNT, MIN, MAX, every
\* array path, field name and root data, renderFormula with no table info
\* returns a number and calculateFormulaValue with the scope stack [data]
\* returns its string form.
C30_InlineAgreesWithFallback ==
    fn = "calculateFormulaValue" => isNumber(FromData) /\ ret = Str(ToStr(FromData))

\* C30 as amended: the same for every array path and field name that is not
\* the empty string.
C30_InlineAgreesOnNamedTargets ==
    (fn = "calculateFormulaValue" /\ args.arrayPath # <<>> /\ args.fieldName # <<>>)
        => isNumber(FromData) /\ ret = Str(ToStr(FromData))

\* C30 witness: the average of the prices 10 and "20" of two elements is
\* returned as the string 15.
C30_Witness ==
    /\ fn = "calculateFormulaValue"
    /\ args.formulaType = sAVERAGE
    /\ args.arrayPath = sItems
    /\ args.fieldName = sPrice
    /\ args.data # Null
    /\ get(args.data, sItems) = Arr(<<FormulaElems[1], FormulaElems[2]>>)
    /\ FromData = Num(15)
    /\ ret = Str(<<"1", "5">>)

====
